---------------------------- MODULE Spec2Model ----------------------------
(***************************************************************************)
(* A model of delta-kernel-rs: optimistic-concurrency write transactions   *)
(* (kernel/src/transaction.rs), the change-data-feed scan                  *)
(* (kernel/src/table_changes/scan.rs), the scan file visitor               *)
(* (kernel/src/scan/state.rs), scalars (kernel/src/expressions/scalars.rs) *)
(* and the predicate evaluator (kernel/src/kernel_predicates).             *)
(***************************************************************************)
EXTENDS Integers, Sequences, FiniteSets, TLC

(***************************************************************************)
(* Bounds of the model.                                                    *)
(***************************************************************************)
MaxVersion == 1
MaxStaged == 2
MaxRivalStaged == 0
MaxTime == 2
MaxSvLen == 3
MaxBatchLen == 2
MaxBatches == 3
MaxCommits == 2
MaxFiles == 2
MaxFileBatches == 2
MaxOut == 4
MaxRows == 3
MaxNesting == 2
MaxOperands == 3
MaxBits == 110
MaxPrecision == 3
MaxOperand == 3
MaxSchemaLen == 3

Txns == {"t1", "t2"}
AppIds == {"a", "b"}
CommitInfoRows == {1, 2}

None == "None"
NoFile == [by |-> "nobody", actions |-> <<>>]
UNKNOWN_OPERATION == "UNKNOWN"

VARIABLES
    log,        \* the table's _delta_log: version -> commit file or NoFile
    txn,        \* the Transaction objects
    now,        \* the system clock, in milliseconds
    result,     \* what the last commit of each transaction returned
    call,       \* the last write_json_file call made by each transaction
    calls,      \* number of write_json_file calls of the commit in progress / last commit
    staged,     \* number of add_files / with_transaction_id calls made so far
    scan_file,          \* read_scan_file: the resolved CDF scan file being read
    selection_vector,   \* read_scan_file: what is left of the selection vector
    results,            \* read_scan_file: the items yielded so far
    commits,            \* execute: the commit files not yet replayed
    scan_files,         \* execute: scan files not yet resolved (their commit versions)
    resolved,           \* execute: resolved scan files not yet read (their commit versions)
    batches,            \* execute: the batches left in the file being read
    out,                \* execute: the items yielded so far
    scan_metadata,      \* visit_scan_files: the ScanMetadata and the getters handed to visit
    visitor,            \* visit_scan_files: the ScanFileVisitor and where the call stands
    visited,            \* visit_scan_files: the invocations of the callback so far
    predicate,          \* predicate evaluation: the expression handed to the evaluator
    resolver,           \* predicate evaluation: the evaluator's column resolver
    evaluation,         \* predicate evaluation: what the evaluator returned
    decimal,            \* decimals: a value, its type, its rendering and its parse
    arithmetic,         \* scalar arithmetic: two operands, the operation and its result
    builder             \* TableChangesScanBuilder: its fields and the scan it built

txnVars == <<log, txn, now, result, call, calls, staged>>
cdfVars == <<scan_file, selection_vector, results>>
execVars == <<commits, scan_files, resolved, batches, out>>
visitVars == <<scan_metadata, visitor, visited>>
predVars == <<predicate, resolver, evaluation>>
decimalVars == <<decimal>>
arithmeticVars == <<arithmetic>>
buildVars == <<builder>>

notTxnVars == <<cdfVars, execVars, visitVars, predVars, decimalVars, arithmeticVars, buildVars>>
notCdfVars == <<txnVars, execVars, visitVars, predVars, decimalVars, arithmeticVars, buildVars>>
notExecVars == <<txnVars, cdfVars, visitVars, predVars, decimalVars, arithmeticVars, buildVars>>
notVisitVars == <<txnVars, cdfVars, execVars, predVars, decimalVars, arithmeticVars, buildVars>>
notPredVars == <<txnVars, cdfVars, execVars, visitVars, decimalVars, arithmeticVars, buildVars>>
notDecimalVars == <<txnVars, cdfVars, execVars, visitVars, predVars, arithmeticVars, buildVars>>
notArithmeticVars == <<txnVars, cdfVars, execVars, visitVars, predVars, decimalVars, buildVars>>
notBuildVars ==
    <<txnVars, cdfVars, execVars, visitVars, predVars, decimalVars, arithmeticVars>>

vars == <<log, txn, now, result, call, calls, staged,
          scan_file, selection_vector, results,
          commits, scan_files, resolved, batches, out,
          scan_metadata, visitor, visited,
          predicate, resolver, evaluation,
          decimal, arithmetic, builder>>

Versions == 0..(MaxVersion + 2)

\* how many staging calls the model follows for a transaction: t1 is the
\* transaction under study, t2 the rival writer of the same table
StagedCap(t) == IF t = "t1" THEN MaxStaged ELSE MaxRivalStaged

(***************************************************************************)
(* Transaction: the struct and its constructor.                            *)
(***************************************************************************)
Unused ==
    [status |-> "unused", read_version |-> 0, operation |-> None,
     commit_info |-> <<>>, add_files_metadata |-> <<>>,
     set_transactions |-> <<>>, commit_timestamp |-> 0]

Transaction(version, timestamp) ==
    [status |-> "open", read_version |-> version, operation |-> None,
     commit_info |-> <<>>, add_files_metadata |-> <<>>,
     set_transactions |-> <<>>, commit_timestamp |-> timestamp]

NoResult == [kind |-> None, version |-> 0, err |-> None]
Committed(v) == [kind |-> "Committed", version |-> v, err |-> None]
Conflict(v) == [kind |-> "Conflict", version |-> v, err |-> None]
Err(e) == [kind |-> "Err", version |-> 0, err |-> e]

\* a call of the writer; retry, conflicted and unchanged describe the commit
\* the call belongs to: whether it is made on a transaction that a Conflict
\* handed back, the version of that Conflict, and whether the transaction is
\* still the one handed back; transaction is the one this call hands back
NoCall ==
    [made |-> FALSE, version |-> 0, overwrite |-> FALSE, actions |-> <<>>,
     outcome |-> None, staged |-> 0, retry |-> FALSE, conflicted |-> 0,
     unchanged |-> FALSE, transaction |-> Unused]

(***************************************************************************)
(* The actions of a commit.                                                *)
(***************************************************************************)
Action(kind, ok, timestamp, operation, batch, app_id, version) ==
    [kind |-> kind, ok |-> ok, timestamp |-> timestamp, operation |-> operation,
     batch |-> batch, app_id |-> app_id, version |-> version]

\* generate_commit_info: one commitInfo action, or an error when the engine's
\* commit info does not have exactly one row
generate_commit_info(operation, timestamp, engine_commit_info) ==
    IF engine_commit_info.len # 1
    THEN Action("commitInfo", FALSE, 0, "InvalidCommitInfo", 0, None, 0)
    ELSE Action("commitInfo", TRUE, timestamp,
                IF operation = None THEN UNKNOWN_OPERATION ELSE operation,
                0, None, 0)

\* generate_adds: one add batch per staged batch, in order
generate_adds(add_files_metadata) ==
    [i \in 1..Len(add_files_metadata) |->
        Action("add", TRUE, 0, None, add_files_metadata[i], None, 0)]

\* SetTransaction::into_engine_data, mapped over set_transactions
set_transaction_actions(set_transactions) ==
    [i \in 1..Len(set_transactions) |->
        Action("txn", TRUE, set_transactions[i].last_updated, None, 0,
               set_transactions[i].app_id, set_transactions[i].version)]

commit_actions_txn_before_add(tx) ==
    <<generate_commit_info(tx.operation, tx.commit_timestamp, tx.commit_info[1])>>
        \o set_transaction_actions(tx.set_transactions)
        \o generate_adds(tx.add_files_metadata)

\* iter::once(commit_info_actions).chain(add_actions).chain(set_transaction_actions)
commit_actions(tx) ==
    <<generate_commit_info(tx.operation, tx.commit_timestamp, tx.commit_info[1])>>
        \o generate_adds(tx.add_files_metadata)
        \o set_transaction_actions(tx.set_transactions)

duplicate_app_id_unchecked(set_transactions) == 0

\* step 0 of commit: the first set transaction whose app_id was already seen
\* (find(|t| !app_ids.insert(&t.app_id))); 0 when every app_id is unique
duplicate_app_id(set_transactions) ==
    LET dups == {i \in 1..Len(set_transactions) :
                    \E j \in 1..(i - 1) :
                        set_transactions[j].app_id = set_transactions[i].app_id}
    IN IF dups = {} THEN 0
       ELSE CHOOSE i \in dups : \A k \in dups : i <= k

missing_commit_info_unchecked(tx) == FALSE

\* step one of commit: the engine's commit info is required
missing_commit_info(tx) == tx.commit_info = <<>>

\* step two of commit: the new commit version and the path to write
commit_version(tx) == tx.read_version + 1

commit_path_off_by_one(version) == version + 1

\* ParsedLogPath::new_commit: the commit file of a version (files are named
\* by their version)
commit_path(version) == version

commit_overwrite_true == TRUE

\* the overwrite argument of write_json_file in commit
commit_overwrite == FALSE

commit_result_conflict_on_any_error(outcome, version) ==
    IF outcome = "Ok" THEN Committed(version) ELSE Conflict(version)

\* step three of commit: the match on the writer's outcome
commit_result(outcome, version) ==
    IF outcome = "Ok" THEN Committed(version)
    ELSE IF outcome = "FileAlreadyExists" THEN Conflict(version)
    ELSE Err(outcome)

(***************************************************************************)
(* The engine's JSON handler: write_json_file(path, actions, overwrite).   *)
(* The action iterator is consumed before anything is written, so an       *)
(* action that is an error fails the write; io is the storage's answer.    *)
(***************************************************************************)
write_json_file_outcome(files, path, actions, overwrite, io) ==
    IF \E i \in 1..Len(actions) : ~actions[i].ok
    THEN LET i == CHOOSE k \in 1..Len(actions) :
                    /\ ~actions[k].ok
                    /\ \A j \in 1..(k - 1) : actions[j].ok
         IN actions[i].operation
    ELSE IF io # "Ok" THEN io
    ELSE IF files[path] # NoFile /\ ~overwrite THEN "FileAlreadyExists"
    ELSE "Ok"

write_json_file_files(files, path, actions, overwrite, io, writer) ==
    IF write_json_file_outcome(files, path, actions, overwrite, io) = "Ok"
    THEN [files EXCEPT ![path] = [by |-> writer, actions |-> actions]]
    ELSE files

(***************************************************************************)
(* Operations.                                                             *)
(***************************************************************************)
TxnInit ==
    /\ log = [v \in Versions |->
                IF v = 0 THEN [by |-> "init", actions |-> <<>>] ELSE NoFile]
    /\ txn = [t \in Txns |-> Unused]
    /\ now = 1
    /\ result = [t \in Txns |-> NoResult]
    /\ call = [t \in Txns |-> NoCall]
    /\ calls = [t \in Txns |-> 0]
    /\ staged = [t \in Txns |-> 0]

\* the clock advances
Tick ==
    /\ now < MaxTime
    /\ now' = now + 1
    /\ UNCHANGED <<log, txn, result, call, calls, staged>>
    /\ UNCHANGED notTxnVars

\* Transaction::try_new on a snapshot of an existing version
try_new(t) ==
    /\ txn[t].status = "unused"
    /\ \E v \in 0..MaxVersion :
        /\ log[v] # NoFile
        /\ txn' = [txn EXCEPT ![t] = Transaction(v, now)]
    /\ UNCHANGED <<log, now, result, call, calls, staged>>
    /\ UNCHANGED notTxnVars

with_operation(t) ==
    /\ txn[t].status = "open"
    /\ txn[t].operation = None
    /\ txn' = [txn EXCEPT ![t].operation = "op"]
    /\ UNCHANGED <<log, now, result, call, calls, staged>>
    /\ UNCHANGED notTxnVars

new_set_transaction_at_now(tx, app_id, version) ==
    [app_id |-> app_id, version |-> version, last_updated |-> now]

\* SetTransaction::new(app_id, version, Some(self.commit_timestamp))
new_set_transaction(tx, app_id, version) ==
    [app_id |-> app_id, version |-> version, last_updated |-> tx.commit_timestamp]

\* the caller passes the number of the staging call as the version
with_transaction_id(t) ==
    /\ txn[t].status = "open"
    /\ staged[t] < StagedCap(t)
    /\ \E app_id \in AppIds :
        LET st == new_set_transaction(txn[t], app_id, staged[t] + 1)
        IN txn' = [txn EXCEPT ![t].set_transactions = Append(@, st)]
    /\ staged' = [staged EXCEPT ![t] = @ + 1]
    /\ UNCHANGED <<log, now, result, call, calls>>
    /\ UNCHANGED notTxnVars

with_commit_info(t) ==
    /\ txn[t].status = "open"
    /\ \E rows \in CommitInfoRows :
        /\ txn[t].commit_info # <<[len |-> rows]>>
        /\ txn' = [txn EXCEPT ![t].commit_info = <<[len |-> rows]>>]
    /\ UNCHANGED <<log, now, result, call, calls, staged>>
    /\ UNCHANGED notTxnVars

push_add_files(add_files_metadata, add_metadata) ==
    Append(add_files_metadata, add_metadata)

\* the batch of add-file metadata is named by the number of the staging call
add_files(t) ==
    /\ txn[t].status = "open"
    /\ staged[t] < StagedCap(t)
    /\ txn' = [txn EXCEPT ![t].add_files_metadata = push_add_files(@, staged[t] + 1)]
    /\ staged' = [staged EXCEPT ![t] = @ + 1]
    /\ UNCHANGED <<log, now, result, call, calls>>
    /\ UNCHANGED notTxnVars

\* Transaction::commit up to the call of the writer (steps 0, one and two):
\* an early return ends the commit with an error, otherwise the action
\* iterator, the version and the path are ready
commit(t) ==
    /\ txn[t].status = "open"
    /\ calls' = [calls EXCEPT ![t] = 0]
    /\ call' = [call EXCEPT ![t] =
            [NoCall EXCEPT !.retry = (result[t].kind = "Conflict"),
                           !.conflicted = result[t].version,
                           !.unchanged = /\ result[t].kind = "Conflict"
                                         /\ call[t].transaction = txn[t]]]
    /\ IF duplicate_app_id(txn[t].set_transactions) # 0
       THEN /\ result' = [result EXCEPT ![t] = Err("Generic:app_id already exists in transaction")]
            /\ txn' = [txn EXCEPT ![t].status = "done"]
       ELSE IF missing_commit_info(txn[t])
       THEN /\ result' = [result EXCEPT ![t] = Err("MissingCommitInfo")]
            /\ txn' = [txn EXCEPT ![t].status = "done"]
       ELSE /\ result' = [result EXCEPT ![t] = NoResult]
            /\ txn' = [txn EXCEPT ![t].status = "writing"]
    /\ UNCHANGED <<log, now, staged>>
    /\ UNCHANGED notTxnVars

\* the transaction that CommitResult::Conflict(self, commit_version) carries
\* had it been refreshed to the version it lost to
returned_transaction_rebased(tx) ==
    [tx EXCEPT !.status = "open", !.read_version = @ + 1]

\* the transaction that CommitResult::Conflict(self, commit_version) carries:
\* self as commit received it, ready to be used again
returned_transaction(tx) == [tx EXCEPT !.status = "open"]

\* Transaction::commit, step three: the call of write_json_file and the
\* mapping of its outcome; on Conflict the transaction is handed back
commit_write(t) ==
    /\ txn[t].status = "writing"
    /\ \E io \in {"Ok", "IOError"} :
        LET tx == txn[t]
            actions == commit_actions(tx)
            version == commit_version(tx)
            path == commit_path(version)
            outcome == write_json_file_outcome(log, path, actions, commit_overwrite, io)
            res == commit_result(outcome, version)
        IN /\ log' = write_json_file_files(log, path, actions, commit_overwrite, io, t)
           /\ call' = [call EXCEPT ![t] =
                    [made |-> TRUE, version |-> path,
                     overwrite |-> commit_overwrite, actions |-> actions,
                     outcome |-> outcome, staged |-> staged[t],
                     retry |-> call[t].retry,
                     conflicted |-> call[t].conflicted, unchanged |-> FALSE,
                     transaction |-> IF res.kind = "Conflict"
                                     THEN returned_transaction(tx)
                                     ELSE Unused]]
           /\ calls' = [calls EXCEPT ![t] = @ + 1]
           /\ result' = [result EXCEPT ![t] = res]
           /\ txn' = [txn EXCEPT ![t] =
                    IF res.kind = "Conflict"
                    THEN returned_transaction(tx)
                    ELSE [tx EXCEPT !.status = "done"]]
    /\ UNCHANGED <<now, staged>>
    /\ UNCHANGED notTxnVars

TxnNext ==
    \/ Tick
    \/ \E t \in Txns : try_new(t)
    \/ \E t \in Txns : with_operation(t)
    \/ \E t \in Txns : with_transaction_id(t)
    \/ \E t \in Txns : with_commit_info(t)
    \/ \E t \in Txns : add_files(t)
    \/ \E t \in Txns : commit(t)
    \/ \E t \in Txns : commit_write(t)

(***************************************************************************)
(* Change data feed: read_scan_file (table_changes/scan.rs).               *)
(* An Option<Vec<bool>> is a record: some tells Some from None.            *)
(***************************************************************************)
NoneVec == [some |-> FALSE, v |-> <<>>]
SomeVec(v) == [some |-> TRUE, v |-> v]

RECURSIVE BoolSeqs(_)
BoolSeqs(n) ==
    IF n = 0 THEN {<<>>}
    ELSE LET shorter == BoolSeqs(n - 1)
         IN shorter \cup {Append(s, b) : s \in {x \in shorter : Len(x) = n - 1},
                                          b \in BOOLEAN}

Repeat(b, n) == [i \in 1..n |-> b]

\* actions::deletion_vector::split_vector(vector, split_index, extend):
\* leaves the first split_index entries in vector and returns the rest; a
\* vector that is too short is extended in place and nothing is left over
split_vector_first(vector, split_index, extend) ==
    IF vector.some /\ split_index < Len(vector.v)
    THEN SomeVec(SubSeq(vector.v, 1, split_index))
    ELSE IF vector.some /\ extend.some
    THEN SomeVec(vector.v \o Repeat(extend.v, split_index - Len(vector.v)))
    ELSE vector

split_vector_rest(vector, split_index, extend) ==
    IF vector.some /\ split_index < Len(vector.v)
    THEN SomeVec(SubSeq(vector.v, split_index + 1, Len(vector.v)))
    ELSE NoneVec

\* let is_dv_resolved_pair = scan_file.remove_dv.is_some()
is_dv_resolved_pair(file) == file.remove_dv

\* a variant of extend_with that selects the rows beyond the vector of
\* every file
extend_with_true(file) == [some |-> TRUE, v |-> TRUE]

\* let extend = Some(!is_dv_resolved_pair)
extend_with(file) == [some |-> TRUE, v |-> ~is_dv_resolved_pair(file)]

\* let len = logical.as_ref().map_or(0, |res| res.len())
logical_len(rows, evaluated) == IF evaluated THEN rows ELSE 0

ScanResult(raw_data_ok, len, rows, raw_mask) ==
    [item |-> "Ok", raw_data |-> raw_data_ok, len |-> len, rows |-> rows,
     raw_mask |-> raw_mask]

ErrItem == [item |-> "Err", raw_data |-> FALSE, len |-> 0, rows |-> 0,
            raw_mask |-> NoneVec]

CdfIdle ==
    /\ scan_file = [remove_dv |-> FALSE, sv |-> NoneVec]
    /\ selection_vector = NoneVec
    /\ results = <<>>

\* the selection vectors of a resolved scan file. A vector is as long as
\* the greatest row index of its bitmap + 1: for a pair of deletion vectors
\* it marks the rows that changed and ends with true; for an unpaired file
\* it marks the rows that are not deleted and is empty or ends with false;
\* a file without a deletion vector has none
ResolvedSelectionVectors(pair) ==
    IF pair
    THEN {SomeVec(v) : v \in {x \in BoolSeqs(MaxSvLen) : x # <<>> /\ x[Len(x)]}}
    ELSE {NoneVec} \cup
         {SomeVec(v) : v \in {x \in BoolSeqs(MaxSvLen) : x = <<>> \/ ~x[Len(x)]}}

\* read_scan_file is handed one resolved scan file
CdfInit ==
    /\ \E pair \in BOOLEAN :
        \E sv \in ResolvedSelectionVectors(pair) :
            /\ scan_file = [remove_dv |-> pair, sv |-> sv]
            /\ selection_vector = sv
    /\ results = <<>>

\* the closure of read_scan_file on a batch that the parquet reader failed
\* to read: batch? returns the error before the selection vector is touched
read_batch_err ==
    /\ Len(results) < MaxBatches
    /\ results' = Append(results, ErrItem)
    /\ UNCHANGED <<scan_file, selection_vector>>
    /\ UNCHANGED notCdfVars

\* the closure of read_scan_file on a batch of `rows` rows; evaluated tells
\* whether the physical-to-logical transform succeeded
read_batch ==
    /\ Len(results) < MaxBatches
    /\ \E rows \in 1..MaxBatchLen, evaluated \in BOOLEAN :
        LET len == logical_len(rows, evaluated)
            extend == extend_with(scan_file)
            sv == split_vector_first(selection_vector, len, extend)
            rest == split_vector_rest(selection_vector, len, extend)
        IN /\ results' = Append(results, ScanResult(evaluated, len, rows, sv))
           /\ selection_vector' = rest
    /\ UNCHANGED scan_file
    /\ UNCHANGED notCdfVars

CdfNext ==
    \/ read_batch
    \/ read_batch_err

(***************************************************************************)
(* Change data feed: TableChangesScan::execute, a chain of lazy iterators. *)
(* Every scan file, resolved scan file and result carries the version of   *)
(* the commit it belongs to. The model follows the first MaxOut items that *)
(* are yielded.                                                            *)
(***************************************************************************)
scan_metadata_commits_descending(ascending_commit_files) ==
    [i \in 1..Len(ascending_commit_files) |->
        ascending_commit_files[Len(ascending_commit_files) + 1 - i]]

\* scan_metadata: let commits = ...log_segment.ascending_commit_files.clone()
scan_metadata_commits(ascending_commit_files) == ascending_commit_files

\* the number of resolved scan files that resolve_scan_file_dv makes of one
\* scan file
ResolvedPerFile == {0, 1, 2}

NoBatches == [left |-> 0, commit_version |-> 0]

OutItem(version, item) == [commit_version |-> version, item |-> item]

ExecIdle ==
    /\ commits = <<>>
    /\ scan_files = <<>>
    /\ resolved = <<>>
    /\ batches = NoBatches
    /\ out = <<>>

\* the log segment of a commit range: versions first .. first + n - 1
ExecInit ==
    /\ \E first \in 0..1, n \in 1..MaxCommits :
        commits = scan_metadata_commits([i \in 1..n |-> first + i - 1])
    /\ scan_files = <<>>
    /\ resolved = <<>>
    /\ batches = NoBatches
    /\ out = <<>>

flatten_ok_fused(queue, ok) == IF ok THEN Tail(queue) ELSE <<>>

\* map(..).flatten_ok(): what is left of the underlying iterator after its
\* head was mapped; an Err is passed on as one item and the iterator goes on
flatten_ok_rest(queue, ok) == Tail(queue)

\* table_changes_action_iter and scan_metadata_to_scan_file: the next commit
\* is replayed when the scan files of the one before are used up; replay
\* gives the commit's scan files, or fails
next_commit ==
    /\ batches.left = 0 /\ resolved = <<>> /\ scan_files = <<>>
    /\ commits # <<>>
    /\ commits' = Tail(commits)
    /\ \/ /\ \E n \in 0..MaxFiles : scan_files' = [i \in 1..n |-> Head(commits)]
          /\ out' = out
       \/ /\ Len(out) < MaxOut
          /\ scan_files' = <<>>
          /\ out' = Append(out, OutItem(Head(commits), "Err"))
    /\ UNCHANGED <<resolved, batches>>
    /\ UNCHANGED notExecVars

\* the first map and flatten_ok of execute: resolve_scan_file_dv on the next
\* scan file, pulled when the resolved files before it are used up
resolve_scan_file_dv ==
    /\ batches.left = 0 /\ resolved = <<>>
    /\ scan_files # <<>>
    /\ \/ /\ \E n \in ResolvedPerFile : resolved' = [i \in 1..n |-> Head(scan_files)]
          /\ scan_files' = flatten_ok_rest(scan_files, TRUE)
          /\ out' = out
       \/ /\ Len(out) < MaxOut
          /\ resolved' = <<>>
          /\ scan_files' = flatten_ok_rest(scan_files, FALSE)
          /\ out' = Append(out, OutItem(Head(scan_files), "Err"))
    /\ UNCHANGED <<commits, batches>>
    /\ UNCHANGED notExecVars

\* the second map and flatten_ok of execute: read_scan_file on the next
\* resolved scan file, pulled when the batches of the file before are used up
read_scan_file ==
    /\ batches.left = 0
    /\ resolved # <<>>
    /\ \/ /\ \E n \in 0..MaxFileBatches :
                batches' = [left |-> n, commit_version |-> Head(resolved)]
          /\ resolved' = flatten_ok_rest(resolved, TRUE)
          /\ out' = out
       \/ /\ Len(out) < MaxOut
          /\ batches' = NoBatches
          /\ resolved' = flatten_ok_rest(resolved, FALSE)
          /\ out' = Append(out, OutItem(Head(resolved), "Err"))
    /\ UNCHANGED <<commits, scan_files>>
    /\ UNCHANGED notExecVars

\* the last map of execute: the next item of the file being read
next_result ==
    /\ Len(out) < MaxOut
    /\ batches.left > 0
    /\ batches' = [batches EXCEPT !.left = @ - 1]
    /\ \E item \in {"Ok", "Err"} :
        out' = Append(out, OutItem(batches.commit_version, item))
    /\ UNCHANGED <<commits, scan_files, resolved>>
    /\ UNCHANGED notExecVars

ExecNext ==
    \/ next_commit
    \/ resolve_scan_file_dv
    \/ read_scan_file
    \/ next_result

(***************************************************************************)
(* Scan state: ScanMetadata::visit_scan_files and ScanFileVisitor::visit   *)
(* (scan/state.rs). A row of the scan files data is a record: path is 0    *)
(* for a null path (the row is not an add file), size is 0 for a null      *)
(* size, stats is the stats string ("null", "valid" or "invalid" JSON).    *)
(* Rust indexes rows from 0; the sequences here are indexed from 1.        *)
(***************************************************************************)
StatsStrings == {"null", "valid", "invalid", "no numRecords"}
GetterCounts == {9, 10, 11}
Contexts == {0, 1}

NullRow ==
    [path |-> 0, size |-> 0, stats |-> "null", deletion_vector |-> 0,
     partition_values |-> 0]

\* the rows a scan files batch may hold at a position: a row that is not an
\* add file, or the add file of a path of its own (named by the position),
\* with partition values of its own and, at every other position, a
\* deletion vector
ScanRows(position) ==
    {NullRow} \cup
        [path : {position}, size : {0, 635}, stats : StatsStrings,
         deletion_vector : {position % 2}, partition_values : {position}]

\* scan_file_transforms: a transform of its own for every other row
Transforms(n) == [i \in 1..n |-> IF i % 2 = 0 THEN i ELSE 0]

RECURSIVE ScanData(_)
ScanData(n) ==
    IF n = 0 THEN {<<>>}
    ELSE LET shorter == ScanData(n - 1)
         IN shorter \cup {Append(q, x) : q \in {y \in shorter : Len(y) = n - 1},
                                          x \in ScanRows(n)}

\* the context handed to visit_scan_files: the callback may change it, here
\* by noting the path it was called with
Context(id) == [id |-> id, seen |-> <<>>]

NoVisitor == [status |-> "new", context |-> Context(0), row_index |-> 0,
              err |-> None]

VisitIdle ==
    /\ scan_metadata = [data |-> <<>>, selection_vector |-> <<>>,
                        transforms |-> <<>>, getters |-> 10]
    /\ visitor = NoVisitor
    /\ visited = <<>>

VisitInit ==
    /\ \E data \in ScanData(MaxRows) :
        \E sv \in BoolSeqs(Len(data)) :
            scan_metadata = [data |-> data, selection_vector |-> sv,
                             transforms |-> Transforms(Len(data)), getters |-> 10]
    /\ visitor = NoVisitor
    /\ visited = <<>>

\* visit_scan_files builds the visitor around the context and has the data
\* visit its rows with the getters of the engine; visit first requires ten
\* getters
visit_scan_files ==
    /\ visitor.status = "new"
    /\ \E id \in Contexts, getters \in GetterCounts :
        /\ scan_metadata' = [scan_metadata EXCEPT !.getters = getters]
        /\ visitor' =
            IF getters = 10
            THEN [NoVisitor EXCEPT !.status = "visiting", !.context = Context(id)]
            ELSE [NoVisitor EXCEPT !.status = "Err", !.context = Context(id),
                                   !.err = "InternalError"]
    /\ visited' = visited
    /\ UNCHANGED notVisitVars

row_selected_unchecked(vector, row_index) == TRUE

\* self.selection_vector[row_index]
row_selected(vector, row_index) == vector[row_index + 1]

\* a variant of parse_stats that hands on the stats of every string
parse_stats_any(stats) == IF stats = "null" THEN None ELSE "Some"

\* the stats handed to the callback: a string that does not parse as Stats,
\* for which numRecords is required, is dropped
parse_stats(stats) == IF stats = "valid" THEN "Some" ELSE None

\* get_transform_for_row(row_index, self.transforms)
get_transform_for_row(row_index, transforms) ==
    IF row_index < Len(transforms) THEN transforms[row_index + 1] ELSE 0

\* (self.callback)(&mut self.context, path, size, stats, ...)
callback(context, path) == [context EXCEPT !.seen = Append(@, path)]

Invocation(row_index, row, context) ==
    [row_index |-> row_index, path |-> row.path, size |-> row.size,
     stats |-> parse_stats(row.stats), dv_info |-> row.deletion_vector,
     transform |-> get_transform_for_row(row_index, scan_metadata.transforms),
     partition_values |-> row.partition_values, context |-> context]

\* one iteration of for row_index in 0..row_count
visit_row ==
    /\ visitor.status = "visiting"
    /\ visitor.row_index < Len(scan_metadata.data)
    /\ LET row_index == visitor.row_index
           row == scan_metadata.data[row_index + 1]
           next == [visitor EXCEPT !.row_index = row_index + 1]
       IN IF row_index >= Len(scan_metadata.selection_vector)
          THEN \* index out of bounds: the thread panics
               /\ visitor' = [visitor EXCEPT !.status = "panic"]
               /\ visited' = visited
          ELSE IF ~row_selected(scan_metadata.selection_vector, row_index)
          THEN /\ visitor' = next
               /\ visited' = visited
          ELSE IF row.path = 0
          THEN /\ visitor' = next
               /\ visited' = visited
          ELSE IF row.size = 0
          THEN \* getters[1].get(..)? on a null size
               /\ visitor' = [visitor EXCEPT !.status = "Err", !.err = "MissingData"]
               /\ visited' = visited
          ELSE /\ visitor' = [next EXCEPT !.context = callback(@, row.path)]
               /\ visited' = Append(visited, Invocation(row_index, row, visitor.context))
    /\ UNCHANGED scan_metadata
    /\ UNCHANGED notVisitVars

\* the loop is over: visit returns Ok(()) and visit_scan_files Ok(visitor.context)
visit_return ==
    /\ visitor.status = "visiting"
    /\ visitor.row_index = Len(scan_metadata.data)
    /\ visitor' = [visitor EXCEPT !.status = "Ok"]
    /\ UNCHANGED <<scan_metadata, visited>>
    /\ UNCHANGED notVisitVars

VisitNext ==
    \/ visit_scan_files
    \/ visit_row
    \/ visit_return

(***************************************************************************)
(* Scalars (expressions/scalars.rs). A Scalar is a record: variant is the  *)
(* enum variant, ty its data type and v its value (a boolean is 0 or 1, a  *)
(* string or binary value is its rank in the lexicographic order, a        *)
(* decimal is its bits; the value of a null, struct, array or map is not   *)
(* looked at).                                                             *)
(***************************************************************************)
Scalar(variant, ty, v) == [variant |-> variant, ty |-> ty, v |-> v]

Integer(v) == Scalar("Integer", "INTEGER", v)
Long(v) == Scalar("Long", "LONG", v)
Boolean(b) == Scalar("Boolean", "BOOLEAN", IF b THEN 1 ELSE 0)
Null(ty) == Scalar("Null", ty, 0)

\* the value of a Float or Double that is not a number
NaN == -1

PrimitiveVariants ==
    {<<"Integer", "INTEGER">>, <<"Long", "LONG">>, <<"Short", "SHORT">>,
     <<"Byte", "BYTE">>, <<"Float", "FLOAT">>, <<"Double", "DOUBLE">>,
     <<"String", "STRING">>, <<"Timestamp", "TIMESTAMP">>,
     <<"TimestampNtz", "TIMESTAMP_NTZ">>, <<"Date", "DATE">>,
     <<"Binary", "BINARY">>}

\* the scalars of test_default_partial_cmp_scalars (a smaller and a larger
\* value of every variant), with decimals of two types, nulls of three
\* types, a map and floats that are not a number
Scalars ==
    {Scalar(pv[1], pv[2], v) : pv \in PrimitiveVariants, v \in {1, 10}}
    \cup {Boolean(b) : b \in BOOLEAN}
    \cup {Scalar("Float", "FLOAT", NaN), Scalar("Double", "DOUBLE", NaN)}
    \cup {Scalar("Decimal", ty, v) : ty \in {"decimal(10,10)", "decimal(5,2)"},
                                    v \in {1, 10}}
    \cup {Null(ty) : ty \in {"LONG", "INTEGER", "BOOLEAN"}}
    \cup {Scalar("Struct", "struct<>", 0), Scalar("Array", "array<long>", 0),
          Scalar("Map", "map<string,string>", 0)}

\* Scalar::is_null
is_null(scalar) == scalar.variant = "Null"

\* a.partial_cmp(b) of two values of a primitive type
Ordering(a, b) ==
    IF a < b THEN "Less" ELSE IF a = b THEN "Equal" ELSE "Greater"

partial_cmp_null_equals_null(a, b) ==
    IF is_null(a) /\ is_null(b) /\ a.ty = b.ty THEN "Equal"
    ELSE IF a.variant # b.variant THEN None
    ELSE IF a.variant \in {"Null", "Struct", "Array", "Map"} THEN None
    ELSE Ordering(a.v, b.v)

\* impl PartialOrd for Scalar: the ordering of two scalars of the same
\* variant, None for two variants, for a null, a struct, an array or a map,
\* for decimals of two types and for a float that is not a number
partial_cmp(a, b) ==
    IF a.variant \in {"Null", "Struct", "Array", "Map"} THEN None
    ELSE IF a.variant # b.variant THEN None
    ELSE IF a.variant = "Decimal" /\ a.ty # b.ty THEN None
    ELSE IF a.variant \in {"Float", "Double"} /\ (a.v = NaN \/ b.v = NaN) THEN None
    ELSE Ordering(a.v, b.v)

\* a variant of eq that compares the two values field by field
eq_structural(a, b) == a = b

\* impl PartialEq for Scalar
eq(a, b) == partial_cmp(a, b) = "Equal"

(***************************************************************************)
(* Expressions and the predicate evaluator (kernel_predicates). An         *)
(* expression is a record: t is the variant, op the operator, val the      *)
(* literal, col the column name, exprs the operands. An Option<bool> is    *)
(* "true", "false" or None. The evaluator resolves columns through the     *)
(* resolver: a column is missing, or has a scalar (which may be a null).   *)
(***************************************************************************)
NoScalar == Scalar("", "", 0)
Missing == Scalar("Missing", "", 0)

Literal(val) ==
    [t |-> "Literal", op |-> "", val |-> val, col |-> "", exprs |-> <<>>]
Column(col) ==
    [t |-> "Column", op |-> "", val |-> NoScalar, col |-> col, exprs |-> <<>>]
Unary(op, expr) ==
    [t |-> "Unary", op |-> op, val |-> NoScalar, col |-> "", exprs |-> <<expr>>]
Binary(op, left, right) ==
    [t |-> "Binary", op |-> op, val |-> NoScalar, col |-> "",
     exprs |-> <<left, right>>]
Junction(op, exprs) ==
    [t |-> "Junction", op |-> op, val |-> NoScalar, col |-> "", exprs |-> exprs]

Some(b) == IF b THEN "true" ELSE "false"

Comparisons ==
    {"Equal", "NotEqual", "LessThan", "LessThanOrEqual", "GreaterThan",
     "GreaterThanOrEqual"}

eval_scalar_not_inverted(val, inverted) ==
    IF val.variant = "Boolean" THEN Some(val.v = 1) ELSE None

\* eval_scalar: a boolean literal is its value, anything else is unknown
eval_scalar(val, inverted) ==
    IF val.variant = "Boolean" THEN Some((val.v = 1) # inverted) ELSE None

\* eval_scalar_is_null: IS [NOT] NULL of a literal
eval_scalar_is_null(val, inverted) == Some(is_null(val) # inverted)

\* eval_is_null: IS [NOT] NULL of a column, unknown for a missing column
eval_is_null(resolve, col, inverted) ==
    IF resolve[col] = Missing THEN None
    ELSE Some(is_null(resolve[col]) # inverted)

\* eval_column: a column used as a boolean
eval_column(resolve, col, inverted) ==
    IF resolve[col] = Missing THEN None ELSE eval_scalar(resolve[col], inverted)

\* partial_cmp_scalars: does a compare to b as ord says
partial_cmp_scalars(ord, a, b, inverted) ==
    IF partial_cmp(a, b) = None THEN None
    ELSE Some((partial_cmp(a, b) = ord) # inverted)

\* DISTINCT of two scalars: two nulls are not distinct, a null and a value
\* are, and two values are distinct unless they compare equal
distinct_scalars(a, b) ==
    IF is_null(a) /\ is_null(b) THEN FALSE
    ELSE IF is_null(a) \/ is_null(b) THEN TRUE
    ELSE ~eq(a, b)

\* eval_binary_scalars: a comparison of two scalars by their partial order,
\* or their null-safe distinctness
eval_binary_scalars(op, left, right, inverted) ==
    CASE op = "Equal" -> partial_cmp_scalars("Equal", left, right, inverted)
      [] op = "NotEqual" -> partial_cmp_scalars("Equal", left, right, ~inverted)
      [] op = "LessThan" -> partial_cmp_scalars("Less", left, right, inverted)
      [] op = "LessThanOrEqual" ->
            partial_cmp_scalars("Greater", left, right, ~inverted)
      [] op = "GreaterThan" -> partial_cmp_scalars("Greater", left, right, inverted)
      [] op = "GreaterThanOrEqual" ->
            partial_cmp_scalars("Less", left, right, ~inverted)
      [] op = "Distinct" -> Some(distinct_scalars(left, right) # inverted)
      [] OTHER -> None

\* eval_distinct: DISTINCT(col, val), known whenever the column resolves
eval_distinct(resolve, col, val, inverted) ==
    IF resolve[col] = Missing THEN None
    ELSE Some(distinct_scalars(resolve[col], val) # inverted)

\* BinaryOperator::commute: the operator of the operands in reverse order
commute(op) ==
    CASE op = "LessThan" -> "GreaterThan"
      [] op = "LessThanOrEqual" -> "GreaterThanOrEqual"
      [] op = "GreaterThan" -> "LessThan"
      [] op = "GreaterThanOrEqual" -> "LessThanOrEqual"
      [] OTHER -> op

\* eval_binary: routes a binary expression by the kinds of its operands
\* (column or literal); arithmetic and any other operand are unknown
eval_binary(resolve, op, left, right, inverted) ==
    IF op \notin Comparisons \cup {"Distinct"} THEN None
    ELSE IF left.t = "Column" /\ right.t = "Column"
    THEN IF resolve[left.col] = Missing \/ resolve[right.col] = Missing THEN None
         ELSE eval_binary_scalars(op, resolve[left.col], resolve[right.col], inverted)
    ELSE IF left.t = "Literal" /\ right.t = "Literal"
    THEN eval_binary_scalars(op, left.val, right.val, inverted)
    ELSE IF {left.t, right.t} = {"Column", "Literal"}
    THEN LET col == IF left.t = "Column" THEN left.col ELSE right.col
             val == IF left.t = "Column" THEN right.val ELSE left.val
             o == IF left.t = "Column" THEN op ELSE commute(op)
         IN IF o = "Distinct" THEN eval_distinct(resolve, col, val, inverted)
            ELSE IF resolve[col] = Missing THEN None
            ELSE eval_binary_scalars(o, resolve[col], val, inverted)
    ELSE None

finish_eval_junction_first_known(op, values, inverted) ==
    LET known == {i \in 1..Len(values) : values[i] # None}
    IN IF known = {} THEN IF values = <<>> THEN Some((op = "And") # inverted) ELSE None
       ELSE values[CHOOSE i \in known : \A j \in known : i <= j]

\* finish_eval_junction: the dominant value (false for AND, true for OR,
\* the other way round when inverted) wins; failing that an unknown
\* operand makes the result unknown; otherwise it is the other value
finish_eval_junction(op, values, inverted) ==
    LET dominator == Some((op = "Or") # inverted)
    IN IF \E i \in 1..Len(values) : values[i] = dominator THEN dominator
       ELSE IF \E i \in 1..Len(values) : values[i] = None THEN None
       ELSE Some((op = "And") # inverted)

RECURSIVE eval_expr(_, _, _)

\* eval_not: NOT is evaluated by inverting the operand
eval_not(resolve, expr, inverted) == eval_expr(resolve, expr, ~inverted)

\* eval_unary: NOT, and IS NULL of a literal or a column
eval_unary(resolve, op, expr, inverted) ==
    IF op = "Not" THEN eval_not(resolve, expr, inverted)
    ELSE IF op # "IsNull" THEN None
    ELSE IF expr.t = "Literal" THEN eval_scalar_is_null(expr.val, inverted)
    ELSE IF expr.t = "Column" THEN eval_is_null(resolve, expr.col, inverted)
    ELSE None

\* eval_junction: every operand is evaluated with the same inverted flag
eval_junction(resolve, op, exprs, inverted) ==
    finish_eval_junction(
        op, [i \in 1..Len(exprs) |-> eval_expr(resolve, exprs[i], inverted)],
        inverted)

\* eval_expr: the dispatch on the variant of the expression
eval_expr(resolve, expr, inverted) ==
    CASE expr.t = "Literal" -> eval_scalar(expr.val, inverted)
      [] expr.t = "Column" -> eval_column(resolve, expr.col, inverted)
      [] expr.t = "Unary" -> eval_unary(resolve, expr.op, expr.exprs[1], inverted)
      [] expr.t = "Binary" ->
            eval_binary(resolve, expr.op, expr.exprs[1], expr.exprs[2], inverted)
      [] expr.t = "Junction" -> eval_junction(resolve, expr.op, expr.exprs, inverted)
      [] OTHER -> None

\* eval: the standard three-valued evaluation
eval(resolve, expr) == eval_expr(resolve, expr, FALSE)

is_null_intolerant_never(op) == FALSE

is_null_intolerant_always(op) == TRUE

\* BinaryOperator::is_null_intolerant: the comparisons, whose result is null
\* when an operand is null
is_null_intolerant(op) == op \in Comparisons

null_literal_sql_where_negated(inverted) == Some(inverted)

\* a null literal under WHERE: NULL IS NOT NULL AND NULL, that is false
null_literal_sql_where(inverted) == Some(FALSE)

eval_column_sql_where_if_null(resolve, col, inverted) ==
    finish_eval_junction(
        "And", <<eval_is_null(resolve, col, FALSE),
                 eval_column(resolve, col, inverted)>>, FALSE)

\* a column under WHERE: col IS NOT NULL AND col
eval_column_sql_where(resolve, col, inverted) ==
    finish_eval_junction(
        "And", <<eval_is_null(resolve, col, TRUE),
                 eval_column(resolve, col, inverted)>>, FALSE)

RECURSIVE eval_expr_sql_where(_, _, _)

\* eval_expr_sql_where: a null literal, a column, a comparison and NOT are
\* evaluated null-safely (as operand IS NOT NULL AND ...), AND and OR
\* recurse, and any other expression is evaluated as eval_expr does
eval_expr_sql_where(resolve, expr, inverted) ==
    CASE expr.t = "Literal" /\ is_null(expr.val) -> null_literal_sql_where(inverted)
      [] expr.t = "Column" -> eval_column_sql_where(resolve, expr.col, inverted)
      [] expr.t = "Unary" /\ expr.op = "Not" ->
            eval_expr_sql_where(resolve, expr.exprs[1], ~inverted)
      [] expr.t = "Binary" /\ is_null_intolerant(expr.op) ->
            finish_eval_junction(
                "And", <<eval_unary(resolve, "IsNull", expr.exprs[1], TRUE),
                         eval_unary(resolve, "IsNull", expr.exprs[2], TRUE),
                         eval_binary(resolve, expr.op, expr.exprs[1],
                                     expr.exprs[2], inverted)>>, FALSE)
      [] expr.t = "Junction" ->
            finish_eval_junction(
                expr.op,
                [i \in 1..Len(expr.exprs) |->
                    eval_expr_sql_where(resolve, expr.exprs[i], inverted)],
                inverted)
      [] OTHER -> eval_expr(resolve, expr, inverted)

eval_sql_where_inverted(resolve, expr) == eval_expr_sql_where(resolve, expr, TRUE)

\* eval_sql_where: the evaluation used for data skipping
eval_sql_where(resolve, expr) == eval_expr_sql_where(resolve, expr, FALSE)

(***************************************************************************)
(* The predicates and resolvers the evaluator is run on: those of the      *)
(* tests (kernel_predicates/tests.rs), built with Expr::not, Expr::and and *)
(* Expr::or up to MaxNesting levels around an atom.                        *)
(***************************************************************************)
VAL == Literal(Integer(1))
TEN == Literal(Integer(10))
NULL == Literal(Null("BOOLEAN"))
NULL_INTEGER == Literal(Null("INTEGER"))
FALSE_LITERAL == Literal(Boolean(FALSE))
TRUE_LITERAL == Literal(Boolean(TRUE))
col_x == Column("x")
col_y == Column("y")

\* the resolvers: EmptyColumnResolver (the column is missing),
\* NullColumnResolver and resolvers of a single scalar
Resolvers ==
    {[x |-> v, y |-> Missing] :
        v \in {Missing, Null("INTEGER"), Integer(1), Boolean(TRUE), Boolean(FALSE)}}

OperandPairs ==
    {<<col_x, VAL>>, <<VAL, col_x>>, <<col_x, NULL_INTEGER>>,
     <<NULL_INTEGER, col_x>>, <<VAL, NULL_INTEGER>>, <<VAL, TEN>>,
     <<col_x, col_x>>, <<FALSE_LITERAL, TRUE_LITERAL>>}

Atoms ==
    {VAL, NULL, FALSE_LITERAL, TRUE_LITERAL, col_x}
    \cup {Unary("IsNull", e) : e \in {col_x, VAL, NULL}}
    \cup {Binary(op, pair[1], pair[2]) : op \in Comparisons, pair \in OperandPairs}
    \cup {Binary("Distinct", pair[1], pair[2]) :
            pair \in {q \in OperandPairs : q[1].t # q[2].t}}
    \cup {Binary("Plus", col_x, VAL)}

\* the operands a predicate is joined with by Expr::and and Expr::or
JunctionOperands == {TRUE_LITERAL, FALSE_LITERAL, NULL, col_x}

RECURSIVE Nesting(_)
Nesting(expr) ==
    IF expr.t \in {"Literal", "Column", "Binary"} THEN 0
    ELSE IF expr.t = "Unary" /\ expr.op = "IsNull" THEN 0
    ELSE IF expr.exprs = <<>> THEN 1
    ELSE 1 + Nesting(expr.exprs[Len(expr.exprs)])

NotEvaluated ==
    [done |-> FALSE, eval |-> [inverted \in BOOLEAN |-> None],
     eval_not |-> [inverted \in BOOLEAN |-> None], sql_where |-> None,
     partial_cmp |-> None, eq |-> FALSE]

PredIdle ==
    /\ predicate = TRUE_LITERAL
    /\ resolver = [x |-> Missing, y |-> Missing]
    /\ evaluation = NotEvaluated

PredInit ==
    /\ predicate \in Atoms
    /\ resolver \in Resolvers
    /\ evaluation = NotEvaluated

\* Expr::not(predicate)
expr_not ==
    /\ Nesting(predicate) < MaxNesting
    /\ predicate' = Unary("Not", predicate)
    /\ evaluation' = NotEvaluated
    /\ UNCHANGED resolver
    /\ UNCHANGED notPredVars

\* Expr::and(operand, predicate) and Expr::or(operand, predicate)
expr_junction ==
    /\ Nesting(predicate) < MaxNesting
    /\ \E op \in {"And", "Or"}, operand \in JunctionOperands :
        predicate' = Junction(op, <<operand, predicate>>)
    /\ evaluation' = NotEvaluated
    /\ UNCHANGED resolver
    /\ UNCHANGED notPredVars

\* the evaluator of the resolver is run on the predicate: eval_expr with
\* both values of inverted, eval_not, eval_sql_where and, for two literals,
\* the comparison of the scalars
evaluate ==
    /\ ~evaluation.done
    /\ evaluation' =
        [done |-> TRUE,
         eval |-> [inverted \in BOOLEAN |-> eval_expr(resolver, predicate, inverted)],
         eval_not |-> [inverted \in BOOLEAN |-> eval_not(resolver, predicate, inverted)],
         sql_where |-> eval_sql_where(resolver, predicate),
         partial_cmp |->
            IF predicate.t = "Binary"
                /\ predicate.exprs[1].t = "Literal" /\ predicate.exprs[2].t = "Literal"
            THEN partial_cmp(predicate.exprs[1].val, predicate.exprs[2].val)
            ELSE None,
         eq |->
            /\ predicate.t = "Binary"
            /\ predicate.exprs[1].t = "Literal" /\ predicate.exprs[2].t = "Literal"
            /\ eq(predicate.exprs[1].val, predicate.exprs[2].val)]
    /\ UNCHANGED <<predicate, resolver>>
    /\ UNCHANGED notPredVars

PredNext ==
    \/ expr_not
    \/ expr_junction
    \/ evaluate

\* the inputs of test_eval_junction: a junction of boolean and null literals
JunctionInputs == {TRUE_LITERAL, FALSE_LITERAL, NULL}

JunctionInit ==
    /\ \E op \in {"And", "Or"} : predicate = Junction(op, <<>>)
    /\ resolver = [x |-> Missing, y |-> Missing]
    /\ evaluation = NotEvaluated

\* one more operand for the junction
junction_push ==
    /\ Len(predicate.exprs) < MaxOperands
    /\ \E input \in JunctionInputs :
        predicate' = Junction(predicate.op, Append(predicate.exprs, input))
    /\ evaluation' = NotEvaluated
    /\ UNCHANGED resolver
    /\ UNCHANGED notPredVars

JunctionNext ==
    \/ junction_push
    \/ evaluate

\* the comparisons of two scalars: of two literals, of a column with a
\* literal and of a literal with a column
ScalarInit ==
    /\ \E a \in Scalars, b \in Scalars, op \in Comparisons :
        \/ predicate = Binary(op, Literal(a), Literal(b)) /\ resolver = [x |-> Missing, y |-> Missing]
        \/ predicate = Binary(op, col_x, Literal(b)) /\ resolver = [x |-> a, y |-> Missing]
        \/ predicate = Binary(op, Literal(a), col_x) /\ resolver = [x |-> b, y |-> Missing]
    /\ evaluation = NotEvaluated

ScalarNext == evaluate

\* DISTINCT of two scalars, each given as a literal or as a resolved column
DistinctInit ==
    /\ \E a \in Scalars, b \in Scalars :
        \/ /\ predicate = Binary("Distinct", Literal(a), Literal(b))
           /\ resolver = [x |-> Missing, y |-> Missing]
        \/ /\ predicate = Binary("Distinct", col_x, Literal(b))
           /\ resolver = [x |-> a, y |-> Missing]
        \/ /\ predicate = Binary("Distinct", Literal(a), col_x)
           /\ resolver = [x |-> b, y |-> Missing]
        \/ /\ predicate = Binary("Distinct", col_x, col_y)
           /\ resolver = [x |-> a, y |-> b]
    /\ evaluation = NotEvaluated

DistinctNext == evaluate

(***************************************************************************)
(* Decimals (kernel/src/expressions/scalars.rs): DecimalData::try_new,     *)
(* Display for Scalar::Decimal and PrimitiveType::parse_decimal.  An i128  *)
(* is held as its sign and the base-10 digits of its magnitude, so that    *)
(* values up to i128::MIN and i128::MAX can be written down.               *)
(***************************************************************************)
I128(neg, mag) == [neg |-> neg, mag |-> mag]

ZERO == I128(FALSE, <<>>)

\* the largest magnitude of a positive i128, 2^127 - 1
I128_MAX_MAG ==
    <<1, 7, 0, 1, 4, 1, 1, 8, 3, 4, 6, 0, 4, 6, 9, 2, 3, 1, 7, 3, 1, 6, 8, 7, 3, 0, 3, 7, 1, 5, 8, 8, 4, 1, 0, 5, 7, 2, 7>>

\* the magnitude of i128::MIN, 2^127
I128_MIN_MAG ==
    <<1, 7, 0, 1, 4, 1, 1, 8, 3, 4, 6, 0, 4, 6, 9, 2, 3, 1, 7, 3, 1, 6, 8, 7, 3, 0, 3, 7, 1, 5, 8, 8, 4, 1, 0, 5, 7, 2, 8>>

I128_MAX == I128(FALSE, I128_MAX_MAG)
I128_MIN == I128(TRUE, I128_MIN_MAG)

RECURSIVE Digits(_)
\* the base-10 digits of a natural number, none for 0
Digits(n) == IF n = 0 THEN <<>> ELSE Append(Digits(n \div 10), n % 10)

\* the i128 of a small integer
i128(n) == I128(n < 0, Digits(IF n < 0 THEN -n ELSE n))

RECURSIVE strip_zeros(_)
\* a digit sequence without its leading zeros
strip_zeros(digits) ==
    IF digits # <<>> /\ digits[1] = 0 THEN strip_zeros(Tail(digits)) ELSE digits

RECURSIVE mag_less(_, _)
\* the order of two magnitudes written without leading zeros
mag_less(m, n) ==
    IF Len(m) # Len(n) THEN Len(m) < Len(n)
    ELSE IF m = <<>> THEN FALSE
    ELSE IF m[1] # n[1] THEN m[1] < n[1]
    ELSE mag_less(Tail(m), Tail(n))

\* whether a sign and magnitude fit the 128 bits of an i128
fits_i128(neg, mag) ==
    ~mag_less(IF neg THEN I128_MIN_MAG ELSE I128_MAX_MAG, mag)

DigitChars == <<"0", "1", "2", "3", "4", "5", "6", "7", "8", "9">>

digit_of(c) == (CHOOSE i \in 1..10 : DigitChars[i] = c) - 1

is_digit(c) == \E i \in 1..10 : DigitChars[i] = c

DecimalType(precision, scale) == [precision |-> precision, scale |-> scale]

DecimalOk(bits) == [kind |-> "Ok", bits |-> bits, err |-> None]
DecimalErr(e) == [kind |-> "Err", bits |-> ZERO, err |-> e]
DecimalPanic == [kind |-> "Panic", bits |-> ZERO, err |-> None]
NoDecimal == [kind |-> None, bits |-> ZERO, err |-> None]

\* i128::unsigned_abs: the magnitude as a u128, defined for i128::MIN too
unsigned_abs(value) == value.mag

\* the none of checked_ilog10
NoLog == -1

\* u128::checked_ilog10: none for 0, else the floor of the logarithm
checked_ilog10(mag) == IF mag = <<>> THEN NoLog ELSE Len(mag) - 1

\* a variant of get_decimal_precision that takes i128::abs, which wraps to
\* i128::MIN for i128::MIN, a value without a logarithm
get_decimal_precision_abs(value) ==
    IF value = I128_MIN \/ checked_ilog10(value.mag) = NoLog THEN 0
    ELSE checked_ilog10(value.mag) + 1

\* get_decimal_precision: the number of base-10 digits of |value|, 0 for 0
get_decimal_precision(value) ==
    IF checked_ilog10(unsigned_abs(value)) = NoLog THEN 0
    ELSE checked_ilog10(unsigned_abs(value)) + 1

\* DecimalData::try_new
DecimalData_try_new(bits, ty) ==
    IF ~(ty.precision >= get_decimal_precision(bits)) THEN DecimalErr("InvalidDecimal")
    ELSE DecimalOk(bits)

\* Display of an i128
fmt_i128(value) ==
    (IF value.neg THEN <<"-">> ELSE <<>>)
        \o (IF value.mag = <<>> THEN <<"0">>
            ELSE [i \in 1..Len(value.mag) |-> DigitChars[value.mag[i] + 1]])

\* value / 10^scale, truncated towards zero
div_pow10(value, scale) ==
    LET mag == IF Len(value.mag) > scale
               THEN SubSeq(value.mag, 1, Len(value.mag) - scale) ELSE <<>>
    IN I128(value.neg /\ mag # <<>>, mag)

\* value % 10^scale, with the sign of value
rem_pow10(value, scale) ==
    LET mag == IF Len(value.mag) > scale
               THEN strip_zeros(SubSeq(value.mag, Len(value.mag) - scale + 1,
                                       Len(value.mag)))
               ELSE value.mag
    IN I128(value.neg /\ mag # <<>>, mag)

\* the format {:0>width$}: s filled with '0' on its left up to width
pad_zeros(s, width) ==
    [i \in 1..(IF Len(s) < width THEN width - Len(s) ELSE 0) |-> "0"] \o s

\* impl Display for Scalar, the Decimal arm
Display(bits, ty) ==
    IF ty.scale = 0 THEN fmt_i128(bits)
    ELSE IF ty.scale > 0
    THEN fmt_i128(div_pow10(bits, ty.scale)) \o <<".">>
            \o pad_zeros(fmt_i128(rem_pow10(bits, ty.scale)), ty.scale)
    ELSE fmt_i128(bits)

\* str::parse::<i128>: an optional sign and at least one digit, within range
from_str_i128(s) ==
    IF s = <<>> THEN DecimalErr("ParseIntError")
    ELSE LET digits == IF s[1] \in {"+", "-"} THEN Tail(s) ELSE s
         IN IF digits = <<>> \/ \E i \in 1..Len(digits) : ~is_digit(digits[i])
            THEN DecimalErr("ParseIntError")
            ELSE LET mag == strip_zeros([i \in 1..Len(digits) |-> digit_of(digits[i])])
                     neg == s[1] = "-" /\ mag # <<>>
                 IN IF fits_i128(s[1] = "-", mag) THEN DecimalOk(I128(neg, mag))
                    ELSE DecimalErr("ParseIntError")

\* str::find of any of the characters: its index, 0 when there is none
find(s, chars) ==
    IF \E i \in 1..Len(s) : s[i] \in chars
    THEN CHOOSE i \in 1..Len(s) : s[i] \in chars /\ \A j \in 1..(i - 1) : s[j] \notin chars
    ELSE 0

\* the value of an i128 of at most three digits
small(value) ==
    LET n == IF value.mag = <<>> THEN 0
             ELSE IF Len(value.mag) = 1 THEN value.mag[1]
             ELSE IF Len(value.mag) = 2 THEN 10 * value.mag[1] + value.mag[2]
             ELSE 100 * value.mag[1] + 10 * value.mag[2] + value.mag[3]
    IN IF value.neg THEN -n ELSE n

\* PrimitiveType::parse_decimal; overflow_checks tells whether the build
\* panics on the overflow of frac_digits - exp, which the exponent i128::MIN
\* brings about; every other exponent of more than three digits is taken
\* to leave the range of a scale without overflow
parse_decimal(raw, dtype, overflow_checks) ==
    LET pos == find(raw, {"e", "E"})
        base == IF pos = 0 THEN raw ELSE SubSeq(raw, 1, pos - 1)
        exp == IF pos = 0 THEN DecimalOk(ZERO)
               ELSE from_str_i128(SubSeq(raw, pos + 1, Len(raw)))
        dot == find(base, {"."})
        int_part == IF dot = 0 THEN base ELSE SubSeq(base, 1, dot - 1)
        has_frac == dot # 0 /\ dot # Len(base)
        frac_part == IF has_frac THEN SubSeq(base, dot + 1, Len(base)) ELSE <<>>
        frac_digits == Len(frac_part)
        int == from_str_i128(int_part \o frac_part)
    IN IF exp.kind = "Err" THEN exp
       ELSE IF base = <<>> THEN DecimalErr("ParseError")
       ELSE IF exp.bits = I128_MIN
       THEN IF overflow_checks THEN DecimalPanic ELSE DecimalErr("ParseError")
       ELSE IF Len(exp.bits.mag) > 3 THEN DecimalErr("ParseError")
       ELSE IF frac_digits - small(exp.bits) \notin 0..255 THEN DecimalErr("ParseError")
       ELSE IF frac_digits - small(exp.bits) # dtype.scale THEN DecimalErr("ParseError")
       ELSE IF int.kind = "Err" THEN int
       ELSE DecimalData_try_new(int.bits, dtype)

\* the values of an i128 of the model: the small ones and the ones at the
\* ends of the range and at 37, 38 and 39 digits
DecimalBits ==
    {i128(n) : n \in (-MaxBits)..MaxBits}
        \cup {I128_MAX, I128_MIN, I128(TRUE, I128_MAX_MAG)}
        \cup {I128(neg, [i \in 1..n |-> 9]) : neg \in BOOLEAN, n \in {37, 38}}
        \cup {I128(neg, <<1>> \o [i \in 1..n |-> 0]) : neg \in BOOLEAN, n \in {37, 38}}

\* DecimalType::try_new: a precision of 1 to 38 and a scale of at most the
\* precision
DecimalTypes ==
    {ty \in [precision : 1..MaxPrecision, scale : 0..MaxPrecision] :
        ty.scale <= ty.precision}
        \cup {DecimalType(38, s) : s \in {0, 2, 18, 38}}
        \cup {DecimalType(5, 5), DecimalType(5, 1), DecimalType(9, 2)}

\* a decimal written in full: the sign, the integer digits, and a point
\* with scale fractional digits when the scale is positive
literal(bits, scale) ==
    LET digits == [i \in 1..Len(bits.mag) |-> DigitChars[bits.mag[i] + 1]]
        padded == pad_zeros(digits, scale + 1)
    IN (IF bits.neg THEN <<"-">> ELSE <<>>)
        \o SubSeq(padded, 1, Len(padded) - scale)
        \o (IF scale > 0
            THEN <<".">> \o SubSeq(padded, Len(padded) - scale + 1, Len(padded))
            ELSE <<>>)

\* the strings of test_parse_decimal and test_parse_decimal_expect_fail
RawStrings ==
    {<<"0", ".", "9", "9", "9">>,
     <<"0">>,
     <<"0", ".", "0", "0">>,
     <<"1", "2", "3">>,
     <<"-", "1", "2", "3">>,
     <<"-", "1", "2", "3", ".">>,
     <<"1", "2", ".", "0">>,
     <<"0", ".", "0", "0", "1", "2", "3">>,
     <<"1", "2", "3", "4", ".", "5", "E", "-", "4">>,
     <<"-", "0">>,
     <<"1", "2", ".", "0", "0", "0", "0", "0", "0", "0", "0", "0", "0", "0", "0", "0", "0", "0", "0", "0", "0">>,
     <<"0", ".", "1", "2", "3", "4", "5">>,
     <<"1", "2", "3", "4", "5">>,
     <<"1", ".", "0", "0", "0">>,
     <<"a">>,
     <<"1", "2", "3", "E", "f">>,
     <<"1", "d", "2", "E", "3">>,
     <<"2", ".", "a">>,
     <<"E", "4", "5">>,
     <<"1", ".", "2", ".", "3">>,
     <<"1", ".", "2", "E", "1", ".", "3">>,
     <<"1", "2", "3", ".", "4", "5">>,
     <<".", "4", "5">>,
     <<"+">>,
     <<"-">>,
     <<"0", ".", "-", "0">>,
     <<"-", "-", "1", ".", "0">>,
     <<"+", "-", "1", ".", "0">>,
     <<"1", ".", "0", "E", "1", "+">>,
     <<"0", ".", "E", "1", "7", "0", "1", "4", "1", "1", "8", "3", "4", "6", "0", "4", "6", "9", "2", "3", "1", "7", "3", "1", "6", "8", "7", "3", "0", "3", "7", "1", "5", "8", "8", "4", "1", "0", "5", "7", "2", "7">>,
     <<"0", ".", "E", "-", "1", "7", "0", "1", "4", "1", "1", "8", "3", "4", "6", "0", "4", "6", "9", "2", "3", "1", "7", "3", "1", "6", "8", "7", "3", "0", "3", "7", "1", "5", "8", "8", "4", "1", "0", "5", "7", "2", "8">>,
     <<"1", "e", "-", "2">>,
     <<"+", "1", ".", "5">>}

NewDecimal(bits, ty, overflow_checks) ==
    [stage |-> "new", bits |-> bits, ty |-> ty, overflow_checks |-> overflow_checks,
     made |-> NoDecimal, raw |-> <<>>, displayed |-> FALSE, parsed |-> NoDecimal]

DecimalIdle == decimal = NewDecimal(ZERO, DecimalType(1, 0), FALSE)

\* a value to build a decimal of, or a string to parse as one
DecimalInit ==
    \E bits \in DecimalBits, ty \in DecimalTypes, overflow_checks \in BOOLEAN :
        \/ decimal = NewDecimal(bits, ty, overflow_checks)
        \/ decimal = [NewDecimal(bits, ty, overflow_checks) EXCEPT
                        !.stage = "raw", !.raw = literal(bits, ty.scale)]
        \/ \E raw \in RawStrings :
            decimal = [NewDecimal(ZERO, ty, overflow_checks) EXCEPT
                        !.stage = "raw", !.raw = raw]

\* Scalar::decimal: DecimalData::try_new of the bits and the type
Scalar_decimal ==
    /\ decimal.stage = "new"
    /\ decimal' = [decimal EXCEPT !.stage = "made",
                                  !.made = DecimalData_try_new(decimal.bits, decimal.ty)]
    /\ UNCHANGED notDecimalVars

\* to_string of the decimal that was made
to_string ==
    /\ decimal.stage = "made"
    /\ decimal.made.kind = "Ok"
    /\ decimal' = [decimal EXCEPT !.stage = "raw", !.displayed = TRUE,
                                  !.raw = Display(decimal.made.bits, decimal.ty)]
    /\ UNCHANGED notDecimalVars

\* parse_scalar of the string under the decimal type
parse_scalar ==
    /\ decimal.stage = "raw"
    /\ decimal' = [decimal EXCEPT !.stage = "parsed",
                                  !.parsed = parse_decimal(decimal.raw, decimal.ty,
                                                           decimal.overflow_checks)]
    /\ UNCHANGED notDecimalVars

DecimalNext ==
    \/ Scalar_decimal
    \/ to_string
    \/ parse_scalar

(***************************************************************************)
(* Scalar arithmetic (kernel/src/expressions/scalars.rs): try_add,         *)
(* try_sub, try_mul and try_div, on the checked operations of i8, i16,     *)
(* i32 and i64.  The checked operations decide an overflow without         *)
(* computing a value outside the type.  The operands of an i64 in the      *)
(* model are small enough that none of their results leaves 64 bits.       *)
(***************************************************************************)
Short(v) == Scalar("Short", "SHORT", v)
Byte(v) == Scalar("Byte", "BYTE", v)

IntegralVariants == {"Byte", "Short", "Integer", "Long"}

\* the bounds of the long operands of the model
LongOperandBound == 46340

\* MIN and MAX of i8, i16 and i32; the operands of an i64 stay within
\* LongOperandBound and their results within its square
MinOf(variant) ==
    CASE variant = "Byte" -> -128
      [] variant = "Short" -> -32768
      [] variant = "Integer" -> -2147483647 - 1
      [] variant = "Long" -> -(LongOperandBound * LongOperandBound)

MaxOf(variant) ==
    CASE variant = "Byte" -> 127
      [] variant = "Short" -> 32767
      [] variant = "Integer" -> 2147483647
      [] variant = "Long" -> LongOperandBound * LongOperandBound

SomeInt(v) == [some |-> TRUE, v |-> v]
NoInt == [some |-> FALSE, v |-> 0]

\* a variant of checked_add that wraps around in 8 and 16 bits
checked_add_wrapping(variant, a, b) ==
    IF variant \in {"Byte", "Short"}
    THEN SomeInt(((a + b - MinOf(variant)) % (MaxOf(variant) - MinOf(variant) + 1))
                    + MinOf(variant))
    ELSE IF (b > 0 /\ a > MaxOf(variant) - b) \/ (b < 0 /\ a < MinOf(variant) - b)
    THEN NoInt
    ELSE SomeInt(a + b)

\* checked_add: none when a + b is outside the type
checked_add(variant, a, b) ==
    IF (b > 0 /\ a > MaxOf(variant) - b) \/ (b < 0 /\ a < MinOf(variant) - b)
    THEN NoInt
    ELSE SomeInt(a + b)

\* checked_sub: none when a - b is outside the type
checked_sub(variant, a, b) ==
    IF (b < 0 /\ a > MaxOf(variant) + b) \/ (b > 0 /\ a < MinOf(variant) + b)
    THEN NoInt
    ELSE SomeInt(a - b)

\* the least integer that is at least n / d, for a positive d
ceil_div(n, d) == (n + d - 1) \div d

\* checked_mul: none when a * b is outside the type
checked_mul(variant, a, b) ==
    LET lo == MinOf(variant)
        hi == MaxOf(variant)
        fits ==
            IF a = 0 \/ b = 0 THEN TRUE
            ELSE IF a > 0 /\ b > 0 THEN a <= hi \div b
            ELSE IF a < 0 /\ b < 0
            THEN a # lo /\ b # lo /\ (-a) <= hi \div (-b)
            ELSE IF a > 0 THEN b >= ceil_div(lo, a)
            ELSE a >= ceil_div(lo, b)
    IN IF fits THEN SomeInt(a * b) ELSE NoInt

\* a / b rounded towards zero, for b other than 0 and a / b within the type
trunc_div(lo, a, b) ==
    IF b = lo THEN (IF a = lo THEN 1 ELSE 0)
    ELSE IF a >= 0 /\ b > 0 THEN a \div b
    ELSE IF a >= 0 THEN -(a \div (-b))
    ELSE IF b > 0 THEN ceil_div(a, b)
    ELSE -ceil_div(a, -b)

\* checked_div: none for a zero divisor and for MIN / -1
checked_div(variant, a, b) ==
    IF b = 0 THEN NoInt
    ELSE IF a = MinOf(variant) /\ b = -1 THEN NoInt
    ELSE SomeInt(trunc_div(MinOf(variant), a, b))

\* the match of try_add, try_sub, try_mul and try_div: only two operands of
\* the same integral variant are computed, every other pair gives none
same_integral(left, right) ==
    left.variant = right.variant /\ left.variant \in IntegralVariants

\* the ? on the checked result and the wrap in the operands' variant
integral_result(left, checked_result) ==
    IF checked_result.some
    THEN Scalar(left.variant, left.ty, checked_result.v)
    ELSE NoScalar

\* Scalar::try_add
try_add(left, right) ==
    IF same_integral(left, right)
    THEN integral_result(left, checked_add(left.variant, left.v, right.v))
    ELSE NoScalar

\* Scalar::try_sub
try_sub(left, right) ==
    IF same_integral(left, right)
    THEN integral_result(left, checked_sub(left.variant, left.v, right.v))
    ELSE NoScalar

\* Scalar::try_mul
try_mul(left, right) ==
    IF same_integral(left, right)
    THEN integral_result(left, checked_mul(left.variant, left.v, right.v))
    ELSE NoScalar

\* Scalar::try_div
try_div(left, right) ==
    IF same_integral(left, right)
    THEN integral_result(left, checked_div(left.variant, left.v, right.v))
    ELSE NoScalar

\* the operands: values at the ends and in the middle of every integral
\* type, and scalars of other variants
ArithmeticOperands ==
    {Byte(v) : v \in {-128, -127, -MaxOperand, -1, 0, 1, MaxOperand, 64, 127}}
        \cup {Short(v) : v \in {-32768, -MaxOperand, -1, 0, 1, MaxOperand, 256, 32767}}
        \cup {Integer(v) : v \in {MinOf("Integer"), -MaxOperand, -1, 0, 1, MaxOperand,
                                 65536, MaxOf("Integer")}}
        \cup {Long(v) : v \in {-LongOperandBound, -MaxOperand, -1, 0, 1, MaxOperand,
                              LongOperandBound}}
        \cup {Scalar("Float", "FLOAT", 1), Scalar("Double", "DOUBLE", 1),
              Scalar("Decimal", "decimal(5,2)", 1), Scalar("String", "STRING", 1),
              Null("INTEGER"), Null("LONG")}

NoArithmetic == [op |-> None, left |-> NoScalar, right |-> NoScalar, result |-> NoScalar]

ArithmeticIdle == arithmetic = NoArithmetic

ArithmeticInit ==
    \E left \in ArithmeticOperands, right \in ArithmeticOperands :
        arithmetic = [NoArithmetic EXCEPT !.left = left, !.right = right]

\* left.try_add(right)
add ==
    /\ arithmetic.op = None
    /\ arithmetic' = [arithmetic EXCEPT !.op = "try_add",
                        !.result = try_add(arithmetic.left, arithmetic.right)]
    /\ UNCHANGED notArithmeticVars

\* left.try_sub(right)
sub ==
    /\ arithmetic.op = None
    /\ arithmetic' = [arithmetic EXCEPT !.op = "try_sub",
                        !.result = try_sub(arithmetic.left, arithmetic.right)]
    /\ UNCHANGED notArithmeticVars

\* left.try_mul(right)
mul ==
    /\ arithmetic.op = None
    /\ arithmetic' = [arithmetic EXCEPT !.op = "try_mul",
                        !.result = try_mul(arithmetic.left, arithmetic.right)]
    /\ UNCHANGED notArithmeticVars

\* left.try_div(right)
div ==
    /\ arithmetic.op = None
    /\ arithmetic' = [arithmetic EXCEPT !.op = "try_div",
                        !.result = try_div(arithmetic.left, arithmetic.right)]
    /\ UNCHANGED notArithmeticVars

ArithmeticNext ==
    \/ add
    \/ sub
    \/ mul
    \/ div

(***************************************************************************)
(* TableChangesScanBuilder (kernel/src/table_changes/scan.rs): with_schema,*)
(* with_predicate and build.  A field is its logical name and the name     *)
(* that make_physical gives it, which differs under column mapping.        *)
(***************************************************************************)
DataColumns == {"part", "id"}

\* table_changes::CDF_FIELDS
CDF_FIELDS == <<"_change_type", "_commit_version", "_commit_timestamp">>

CdfColumns == {CDF_FIELDS[i] : i \in 1..Len(CDF_FIELDS)}

\* the physical name of a column of the table under column mapping
MappedName(name) ==
    CASE name = "part" -> "col-part"
      [] name = "id" -> "col-id"
      [] OTHER -> name

StructField(name, mapped) ==
    [name |-> name, physical_name |-> IF mapped THEN MappedName(name) ELSE name]

\* StructField::make_physical: the field under its physical name
make_physical(logical_field) ==
    [name |-> logical_field.physical_name,
     physical_name |-> logical_field.physical_name]

\* TableChanges::schema: the columns of the table and then the CDF columns
table_changes_schema(mapped) ==
    <<StructField("part", mapped), StructField("id", mapped)>>
        \o [i \in 1..Len(CDF_FIELDS) |-> StructField(CDF_FIELDS[i], mapped)]

\* the projections of the schema: sequences of distinct fields of it
Schemas(mapped) ==
    LET fields == {table_changes_schema(mapped)[i] : i \in 1..Len(table_changes_schema(mapped))}
    IN UNION {{s \in [1..n -> fields] : \A i, j \in 1..n : i # j => s[i] # s[j]} :
                n \in 0..MaxSchemaLen}

\* ColumnType::Partition(index) and ColumnType::Selected(name)
Partition(index) == [kind |-> "Partition", index |-> index, name |-> ""]
Selected(name) == [kind |-> "Selected", index |-> 0, name |-> name]

NoSchema == [some |-> FALSE, fields |-> <<>>]
SomeSchema(fields) == [some |-> TRUE, fields |-> fields]

Predicates == {None, "valid", "invalid"}

\* PhysicalPredicate::try_new: the physical predicate, or an error for a
\* predicate that the logical schema does not support
PhysicalPredicate_try_new(pred) ==
    CASE pred = None -> [ok |-> TRUE, physical_predicate |-> "None"]
      [] pred = "valid" -> [ok |-> TRUE, physical_predicate |-> "Some"]
      [] pred = "invalid" -> [ok |-> FALSE, physical_predicate |-> "None"]

\* a variant of column_type that selects a read column by its logical name
column_type_logical(index, logical_field, partition_columns) ==
    IF logical_field.name \in partition_columns THEN Partition(index)
    ELSE Selected(logical_field.name)

\* the closure of build on the field at index of the logical schema
column_type(index, logical_field, partition_columns) ==
    IF logical_field.name \in partition_columns THEN Partition(index)
    ELSE IF logical_field.name \in CdfColumns THEN Selected(logical_field.name)
    ELSE Selected(make_physical(logical_field).name)

\* whether the closure pushes the field to read_fields
is_read_field(logical_field, partition_columns) ==
    /\ logical_field.name \notin partition_columns
    /\ logical_field.name \notin CdfColumns

RECURSIVE read_fields(_, _)
\* read_fields after the loop over the fields of the logical schema
read_fields(fields, partition_columns) ==
    IF fields = <<>> THEN <<>>
    ELSE (IF is_read_field(Head(fields), partition_columns)
          THEN <<make_physical(Head(fields))>> ELSE <<>>)
            \o read_fields(Tail(fields), partition_columns)

NotBuilt ==
    [kind |-> None, logical_schema |-> <<>>, all_fields |-> <<>>,
     physical_schema |-> <<>>, physical_predicate |-> "None"]

\* TableChangesScanBuilder::build
build_scan(schema, pred, partition_columns, mapped) ==
    LET logical_schema == IF schema.some THEN schema.fields
                          ELSE table_changes_schema(mapped)
        all_fields == [i \in 1..Len(logical_schema) |->
                        column_type(i - 1, logical_schema[i], partition_columns)]
        physical_predicate == PhysicalPredicate_try_new(pred)
    IN IF ~physical_predicate.ok
       THEN [NotBuilt EXCEPT !.kind = "Err"]
       ELSE [kind |-> "Ok", logical_schema |-> logical_schema,
             all_fields |-> all_fields,
             physical_schema |-> read_fields(logical_schema, partition_columns),
             physical_predicate |-> physical_predicate.physical_predicate]

\* TableChangesScanBuilder::new
NewBuilder(partition_columns, mapped) ==
    [partition_columns |-> partition_columns, mapped |-> mapped,
     schema |-> NoSchema, predicate |-> None, scan |-> NotBuilt]

BuildIdle == builder = NewBuilder({}, FALSE)

BuildInit ==
    \E partition_columns \in SUBSET DataColumns, mapped \in BOOLEAN :
        builder = NewBuilder(partition_columns, mapped)

with_schema ==
    /\ builder.scan.kind = None
    /\ \E schema \in {NoSchema} \cup {SomeSchema(s) : s \in Schemas(builder.mapped)} :
        builder' = [builder EXCEPT !.schema = schema]
    /\ UNCHANGED notBuildVars

with_predicate ==
    /\ builder.scan.kind = None
    /\ \E pred \in Predicates : builder' = [builder EXCEPT !.predicate = pred]
    /\ UNCHANGED notBuildVars

build ==
    /\ builder.scan.kind = None
    /\ builder' = [builder EXCEPT !.scan =
                        build_scan(builder.schema, builder.predicate,
                                   builder.partition_columns, builder.mapped)]
    /\ UNCHANGED notBuildVars

BuildNext ==
    \/ with_schema
    \/ with_predicate
    \/ build

(***************************************************************************)
(* Specifications.                                                         *)
(***************************************************************************)
Init == TxnInit /\ CdfIdle /\ ExecIdle /\ VisitIdle /\ PredIdle /\ DecimalIdle /\ ArithmeticIdle /\ BuildIdle

Next == TxnNext

Spec == Init /\ [][Next]_vars

InitCdf == TxnInit /\ CdfInit /\ ExecIdle /\ VisitIdle /\ PredIdle /\ DecimalIdle /\ ArithmeticIdle /\ BuildIdle

NextCdf == CdfNext

SpecCdf == InitCdf /\ [][NextCdf]_vars

InitExec == TxnInit /\ CdfIdle /\ ExecInit /\ VisitIdle /\ PredIdle /\ DecimalIdle /\ ArithmeticIdle /\ BuildIdle

NextExec == ExecNext

SpecExec == InitExec /\ [][NextExec]_vars

InitVisit == TxnInit /\ CdfIdle /\ ExecIdle /\ VisitInit /\ PredIdle /\ DecimalIdle /\ ArithmeticIdle /\ BuildIdle

NextVisit == VisitNext

SpecVisit == InitVisit /\ [][NextVisit]_vars

InitPred == TxnInit /\ CdfIdle /\ ExecIdle /\ VisitIdle /\ PredInit /\ DecimalIdle /\ ArithmeticIdle /\ BuildIdle

NextPred == PredNext

SpecPred == InitPred /\ [][NextPred]_vars

InitJunction == TxnInit /\ CdfIdle /\ ExecIdle /\ VisitIdle /\ JunctionInit /\ DecimalIdle /\ ArithmeticIdle /\ BuildIdle

NextJunction == JunctionNext

SpecJunction == InitJunction /\ [][NextJunction]_vars

InitScalar == TxnInit /\ CdfIdle /\ ExecIdle /\ VisitIdle /\ ScalarInit /\ DecimalIdle /\ ArithmeticIdle /\ BuildIdle

NextScalar == ScalarNext

SpecScalar == InitScalar /\ [][NextScalar]_vars

InitDistinct == TxnInit /\ CdfIdle /\ ExecIdle /\ VisitIdle /\ DistinctInit /\ DecimalIdle /\ ArithmeticIdle /\ BuildIdle

NextDistinct == DistinctNext

SpecDistinct == InitDistinct /\ [][NextDistinct]_vars

InitDecimal == TxnInit /\ CdfIdle /\ ExecIdle /\ VisitIdle /\ PredIdle /\ DecimalInit /\ ArithmeticIdle /\ BuildIdle

NextDecimal == DecimalNext

SpecDecimal == InitDecimal /\ [][NextDecimal]_vars

InitArithmetic ==
    /\ TxnInit /\ CdfIdle /\ ExecIdle /\ VisitIdle /\ PredIdle /\ DecimalIdle
    /\ ArithmeticInit /\ BuildIdle

NextArithmetic == ArithmeticNext

SpecArithmetic == InitArithmetic /\ [][NextArithmetic]_vars

InitBuild ==
    /\ TxnInit /\ CdfIdle /\ ExecIdle /\ VisitIdle /\ PredIdle /\ DecimalIdle
    /\ ArithmeticIdle /\ BuildInit

NextBuild == BuildNext

SpecBuild == InitBuild /\ [][NextBuild]_vars

(***************************************************************************)
(* Properties of Transaction::commit.                                      *)
(***************************************************************************)
\* the commit of t returns in this step
Returns(t) == txn[t].status = "writing" /\ txn'[t].status # "writing"

HasDuplicateAppId(set_transactions) ==
    \E i, j \in 1..Len(set_transactions) :
        i < j /\ set_transactions[i].app_id = set_transactions[j].app_id

GenericAppIdError == Err("Generic:app_id already exists in transaction")

\* C1: every call of the writer made by commit targets the commit file of
\* read_snapshot.version + 1 with overwrite = false, and the result of the
\* commit maps the writer's outcome: Ok to Committed(version + 1),
\* FileAlreadyExists to Conflict(transaction, version + 1) with the
\* transaction handed back, any other error to Err with that error.
C1_CommitMapsWriterOutcome ==
    \A t \in Txns :
        call[t].made =>
            LET v == txn[t].read_version + 1
            IN /\ call[t].version = v
               /\ call[t].overwrite = FALSE
               /\ call[t].outcome = "Ok" =>
                    result[t] = Committed(v) /\ txn[t].status = "done"
               /\ call[t].outcome = "FileAlreadyExists" =>
                    result[t] = Conflict(v) /\ txn[t].status = "open"
               /\ call[t].outcome \notin {"Ok", "FileAlreadyExists"} =>
                    result[t] = Err(call[t].outcome) /\ txn[t].status = "done"

C1_Witness ==
    \E t, u \in Txns :
        /\ call[t].made /\ call[t].outcome = "Ok"
        /\ call[u].made /\ call[u].outcome = "FileAlreadyExists"

\* the writer answered the call of t by its create-if-absent contract
Answered(t) == call[t].made /\ call[t].outcome \in {"Ok", "FileAlreadyExists"}

C2_AtMostOneCommitted ==
    \A t, u \in Txns :
        (t # u /\ Answered(t) /\ Answered(u)
            /\ txn[t].read_version = txn[u].read_version) =>
            LET v == txn[t].read_version + 1
            IN /\ ~(result[t].kind = "Committed" /\ result[u].kind = "Committed")
               /\ result[u] = Committed(v) => result[t] = Conflict(v)
               /\ log[v].by \in {t, u} => result[log[v].by] = Committed(v)

C2_WriteOnce == \A v \in Versions : log[v] # NoFile => log'[v] = log[v]

\* C2: of the commits of transactions created from the same snapshot
\* (version v) that the writer answers, in any interleaving, at most one
\* returns Committed(v + 1) and every other one returns Conflict with
\* version v + 1; a commit file, once written, never changes.
C2_OneWinnerPerVersion == []C2_AtMostOneCommitted /\ [][C2_WriteOnce]_vars

C2_Witness ==
    \E t, u \in Txns :
        /\ t # u /\ txn[t].read_version = txn[u].read_version
        /\ result[t] = Committed(txn[t].read_version + 1)
        /\ result[u] = Conflict(txn[u].read_version + 1)

\* C3: a commit that returns Committed(n) has called the writer once and
\* created exactly one file, the commit file of n = read_snapshot.version + 1,
\* leaving every other file as it was; a commit that returns Conflict has
\* changed no file, and the file of that version exists.
C3_CommitAtomicity ==
    [][\A t \in Txns :
        Returns(t) =>
            /\ result'[t].kind = "Committed" =>
                LET n == result'[t].version
                IN /\ n = txn[t].read_version + 1
                   /\ calls'[t] = 1
                   /\ log[n] = NoFile /\ log'[n] # NoFile /\ log'[n].by = t
                   /\ \A v \in Versions \ {n} : log'[v] = log[v]
            /\ result'[t].kind = "Conflict" =>
                /\ log' = log
                /\ log[result'[t].version] # NoFile]_vars

C3_Witness ==
    \E t \in Txns :
        /\ result[t].kind = "Conflict" /\ calls[t] = 1
        /\ log[result[t].version].by \notin {t, "nobody"}

C4_StagingAccepts ==
    \A t \in Txns :
        (txn[t].status = "open" /\ staged'[t] # staged[t]) =>
            /\ txn'[t].status = "open"
            /\ result'[t] = result[t]
            /\ log' = log

C4_DuplicateRejected ==
    \A t \in Txns :
        HasDuplicateAppId(txn[t].set_transactions) =>
            /\ txn[t].status # "writing"
            /\ txn[t].status = "done" =>
                result[t] = GenericAppIdError /\ calls[t] = 0 /\ ~call[t].made

\* C4: with_transaction_id stages any app_id, also one that is already
\* staged, without an error or any other effect; the commit of a
\* transaction whose set_transactions hold an app_id twice returns the
\* Generic error "app_id ... already exists in transaction" and never calls
\* the writer.
C4_AppIdCheckedAtCommit == []C4_DuplicateRejected /\ [][C4_StagingAccepts]_vars

C4_Witness ==
    \E t \in Txns :
        /\ HasDuplicateAppId(txn[t].set_transactions)
        /\ txn[t].status = "done" /\ result[t] = GenericAppIdError

\* C5 as stated: the commit of a transaction without commit info returns
\* MissingCommitInfo whatever else was staged, and never calls the writer.
C5_MissingCommitInfoAlways ==
    \A t \in Txns :
        (txn[t].status = "done" /\ txn[t].commit_info = <<>>) =>
            result[t] = Err("MissingCommitInfo") /\ calls[t] = 0

\* C5 amended: the commit of a transaction without commit info never calls
\* the writer and returns an error: the Generic app_id error when
\* set_transactions hold an app_id twice (that check comes first), and
\* MissingCommitInfo otherwise.
C5_MissingCommitInfo ==
    \A t \in Txns :
        txn[t].commit_info = <<>> =>
            /\ txn[t].status # "writing"
            /\ txn[t].status = "done" =>
                /\ calls[t] = 0 /\ ~call[t].made
                /\ result[t] = IF HasDuplicateAppId(txn[t].set_transactions)
                               THEN GenericAppIdError
                               ELSE Err("MissingCommitInfo")

C5_Witness ==
    \E t \in Txns :
        /\ txn[t].status = "done" /\ txn[t].commit_info = <<>>
        /\ result[t] = Err("MissingCommitInfo")
        /\ txn[t].add_files_metadata # <<>>

\* the number of the staging call an add or txn action comes from
CallOf(action) == IF action.kind = "add" THEN action.batch ELSE action.version

KindRank(action) ==
    IF action.kind = "commitInfo" THEN 0 ELSE IF action.kind = "add" THEN 1 ELSE 2

\* C6: the actions handed to the writer are one commitInfo action, then the
\* add batches of the add_files calls in call order, then the txn actions
\* of the with_transaction_id calls in call order, one per staging call.
C6_ActionOrder ==
    \A t \in Txns :
        call[t].made =>
            LET actions == call[t].actions
                n == Len(actions)
            IN /\ n = call[t].staged + 1
               /\ actions[1].kind = "commitInfo"
               /\ \A i \in 2..n : actions[i].kind \in {"add", "txn"}
               /\ {CallOf(actions[i]) : i \in 2..n} = 1..call[t].staged
               /\ \A i, j \in 1..n :
                    i < j =>
                        /\ KindRank(actions[i]) <= KindRank(actions[j])
                        /\ (i > 1 /\ actions[i].kind = actions[j].kind) =>
                                CallOf(actions[i]) < CallOf(actions[j])

C6_Witness ==
    \E t \in Txns :
        /\ call[t].made
        /\ \E i, j \in 1..Len(call[t].actions) :
            /\ call[t].actions[i].kind = "add"
            /\ call[t].actions[j].kind = "txn"
            /\ CallOf(call[t].actions[j]) < CallOf(call[t].actions[i])

C7_TimestampInActions ==
    \A t \in Txns :
        /\ \A i \in 1..Len(txn[t].set_transactions) :
            txn[t].set_transactions[i].last_updated = txn[t].commit_timestamp
        /\ call[t].made =>
            \A i \in 1..Len(call[t].actions) :
                (call[t].actions[i].ok
                    /\ call[t].actions[i].kind \in {"commitInfo", "txn"}) =>
                    call[t].actions[i].timestamp = txn[t].commit_timestamp

C7_TimestampFixed ==
    \A t \in Txns :
        /\ (txn[t].status = "unused" /\ txn'[t].status # "unused") =>
                txn'[t].commit_timestamp = now
        /\ txn[t].status # "unused" =>
                txn'[t].commit_timestamp = txn[t].commit_timestamp

\* C7: commit_timestamp is the clock's value when the transaction is created
\* and never changes; the timestamp of the commitInfo action and the
\* lastUpdated of every txn action handed to the writer equal it, whenever
\* with_transaction_id and commit are called, also in a commit retried after
\* Conflict.
C7_OneCommitTimestamp == []C7_TimestampInActions /\ [][C7_TimestampFixed]_vars

C7_Witness ==
    \E t \in Txns :
        /\ call[t].made /\ call[t].retry
        /\ now > txn[t].commit_timestamp
        /\ call[t].actions[1].ok
        /\ \E i \in 1..Len(call[t].actions) : call[t].actions[i].kind = "txn"

(***************************************************************************)
(* Properties of read_scan_file.                                           *)
(***************************************************************************)
\* the mask in force for a result: an absent raw_mask selects every row
MaskOf(r) == IF r.raw_mask.some THEN r.raw_mask.v ELSE Repeat(TRUE, r.len)

RECURSIVE ConcatMasks(_)
ConcatMasks(rs) ==
    IF rs = <<>> THEN <<>>
    ELSE IF Head(rs).item = "Ok" THEN MaskOf(Head(rs)) \o ConcatMasks(Tail(rs))
    ELSE ConcatMasks(Tail(rs))

RECURSIVE RowsEmitted(_)
RowsEmitted(rs) ==
    IF rs = <<>> THEN 0 ELSE Head(rs).len + RowsEmitted(Tail(rs))

\* the selection vector v cut or padded with b to n entries
PaddedTo(v, n, b) == [i \in 1..n |-> IF i <= Len(v) THEN v[i] ELSE b]

RowOffset(i) == RowsEmitted(SubSeq(results, 1, i - 1))

C10_AscendingCommitOrder ==
    \A i, j \in 1..Len(out) :
        i < j => out[i].commit_version <= out[j].commit_version

C10_Witness ==
    \E i, j \in 1..Len(out) :
        /\ i + 1 < j
        /\ out[i].commit_version < out[j].commit_version
        /\ out[i].item = "Ok" /\ out[j].item = "Ok"
        /\ out[i + 1].commit_version = out[i].commit_version

\* the stream has more to give: a commit, a scan file, a resolved scan file
\* or a batch is still to come
Pending ==
    commits # <<>> \/ scan_files # <<>> \/ resolved # <<>> \/ batches.left > 0

\* queue after is queue before, or queue before without its head
HeadTaken(before, after) ==
    after = before \/ (before # <<>> /\ after = Tail(before))

YieldsErr == Len(out') = Len(out) + 1 /\ out'[Len(out')].item = "Err"

\* a step that yields an Err uses up one item (a scan file, a resolved scan
\* file or a batch) and nothing that comes after it
C11_ErrUsesOneItem ==
    YieldsErr =>
        /\ HeadTaken(scan_files, scan_files')
        /\ HeadTaken(resolved, resolved')
        /\ HeadTaken(commits, commits')
        /\ batches'.left \in {batches.left, batches.left - 1}
        /\ Len(commits) + Len(scan_files) + Len(resolved) + batches.left
            = Len(commits') + Len(scan_files') + Len(resolved') + batches'.left + 1

\* while something is still to come the iterator can be pulled again,
\* whatever was yielded before
C11_StreamGoesOn == (Pending /\ Len(out) < MaxOut) => ENABLED ExecNext

\* the files are read in the order in which they were resolved: what is
\* yielded never goes back to an earlier commit, also after an Err
C11_LaterFilesInOrder ==
    \A i \in 1..Len(out) :
        out[i].item = "Err" =>
            \A j \in (i + 1)..Len(out) :
                out[i].commit_version <= out[j].commit_version

\* C11: in execute a failure to resolve or to read one file is yielded as
\* one Err item and uses up that file only; the iterator goes on with every
\* later file in order and is never ended by an error.
C11_ErrDoesNotEndStream ==
    /\ [](C11_StreamGoesOn /\ C11_LaterFilesInOrder)
    /\ [][C11_ErrUsesOneItem]_vars

\* an Err is followed by a result of a later file of the same commit and by
\* a result of a later commit
C11_Witness ==
    \E i, j, k \in 1..Len(out) :
        /\ i < j /\ j < k
        /\ out[i].item = "Err" /\ out[j].item = "Ok" /\ out[k].item = "Ok"
        /\ out[j].commit_version = out[i].commit_version
        /\ out[k].commit_version > out[i].commit_version

(***************************************************************************)
(* Properties of visit_scan_files.                                         *)
(***************************************************************************)
\* row i (counted from 0) is selected and has a path
LiveRow(i) ==
    /\ i < Len(scan_metadata.selection_vector)
    /\ scan_metadata.selection_vector[i + 1]
    /\ scan_metadata.data[i + 1].path # 0

\* the callback was invoked for selected rows with a path only, in ascending
\* row order (so at most once per row), and for every such row that the
\* loop has passed; the context has seen exactly these invocations
C12_CallbackPerLiveRow ==
    /\ \A k \in 1..Len(visited) : LiveRow(visited[k].row_index)
    /\ \A k, l \in 1..Len(visited) :
        k < l => visited[k].row_index < visited[l].row_index
    /\ \A i \in 0..(visitor.row_index - 1) :
        LiveRow(i) => \E k \in 1..Len(visited) : visited[k].row_index = i
    /\ visitor.context.seen = [k \in 1..Len(visited) |-> visited[k].path]
    /\ \A k \in 1..Len(visited) :
        /\ visited[k].path = scan_metadata.data[visited[k].row_index + 1].path
        /\ visited[k].context.id = visitor.context.id
        /\ visited[k].context.seen = [l \in 1..(k - 1) |-> visited[l].path]

\* a visit that returns Ok has passed every row
C12_OkAfterAllRows ==
    visitor.status = "Ok" =>
        /\ visitor.row_index = Len(scan_metadata.data)
        /\ \A i \in 0..(Len(scan_metadata.data) - 1) :
            LiveRow(i) => \E k \in 1..Len(visited) : visited[k].row_index = i

C12_WrongGetters ==
    (visitor.status # "new" /\ scan_metadata.getters # 10) =>
        /\ visitor.status = "Err" /\ visitor.err = "InternalError"
        /\ visited = <<>>

\* the context is the caller's from the start of the visit to its return
C12_SameContext ==
    visitor.status # "new" => visitor'.context.id = visitor.context.id

\* C12: visit_scan_files invokes the callback exactly once, in ascending row
\* order, for each row that is selected and has a path, and never for
\* another row; the context returned with Ok is the one passed in after all
\* those invocations; with a number of getters other than 10 it returns
\* InternalError without invoking the callback.
C12_VisitScanFiles ==
    /\ [](C12_CallbackPerLiveRow /\ C12_OkAfterAllRows /\ C12_WrongGetters)
    /\ [][C12_SameContext]_vars

\* a visit returned Ok after invoking the callback for one row and skipping
\* a row that is not selected and a selected row without a path
C12_Witness ==
    /\ visitor.status = "Ok" /\ Len(visited) = 1
    /\ \E i, j \in 1..Len(scan_metadata.data) :
        /\ ~scan_metadata.selection_vector[i] /\ scan_metadata.data[i].path # 0
        /\ scan_metadata.selection_vector[j] /\ scan_metadata.data[j].path = 0

(***************************************************************************)
(* Properties of the predicate evaluator.                                  *)
(***************************************************************************)
Known == {"true", "false"}

\* negate(true) = false, negate(false) = true, negate(unknown) = unknown
negate(value) ==
    IF value = "true" THEN "false" ELSE IF value = "false" THEN "true" ELSE None

\* C13: whenever eval_sql_where(P) is some(false), eval(P) under the same
\* resolver is some(false) or unknown, never some(true).
C13_WhereRefinement ==
    (evaluation.done /\ evaluation.sql_where = "false") =>
        evaluation.eval[FALSE] \in {"false", None}

\* a file is skipped on a nested predicate that eval cannot decide
C13_Witness ==
    /\ evaluation.done /\ evaluation.sql_where = "false"
    /\ evaluation.eval[FALSE] = None
    /\ Nesting(predicate) = 2

\* C14: whenever eval(P) is some(true) or some(false), eval_sql_where(P)
\* is the same value.
C14_AgreeWhenKnown ==
    (evaluation.done /\ evaluation.eval[FALSE] \in Known) =>
        evaluation.sql_where = evaluation.eval[FALSE]

\* eval decides a nested predicate over a column that is null
C14_Witness ==
    /\ evaluation.done /\ evaluation.eval[FALSE] = "true"
    /\ evaluation.sql_where = "true"
    /\ is_null(resolver.x) /\ Nesting(predicate) = 2

\* C15 as stated: eval_sql_where returns some(false) or none, never
\* some(true).
C15_NeverTrue ==
    evaluation.done => evaluation.sql_where \in {"false", None}

\* C15 amended: eval_sql_where returns some(true) exactly when eval returns
\* some(true); in every other case it returns some(false) or none, and none
\* only when eval is unknown.
C15_TrueOnlyWhenEvalTrue ==
    evaluation.done =>
        /\ evaluation.sql_where = "true" <=> evaluation.eval[FALSE] = "true"
        /\ evaluation.sql_where = None => evaluation.eval[FALSE] = None

\* eval_sql_where returns some(true) for FALSE < TRUE
C15_Witness ==
    /\ evaluation.done /\ evaluation.sql_where = "true"
    /\ predicate = Binary("LessThan", FALSE_LITERAL, TRUE_LITERAL)

IsNullDistinctOrNot(expr) ==
    \/ expr.t = "Unary"
    \/ expr.t = "Binary" /\ expr.op = "Distinct"

\* C16 as stated: for IS NULL(e), DISTINCT(a, b) and NOT(p) eval_sql_where
\* returns what eval returns.
C16_SameAsEval ==
    (evaluation.done /\ IsNullDistinctOrNot(predicate)) =>
        evaluation.sql_where = evaluation.eval[FALSE]

\* C16 amended: for IS NULL(e) and DISTINCT(a, b) eval_sql_where returns
\* what eval returns; for NOT(p) it returns what eval returns when eval
\* knows, and some(false) or unknown when eval is unknown (NOT(x) with x
\* null is unknown for eval and some(false) for eval_sql_where).
C16_IsNullDistinctAsEval ==
    (evaluation.done /\ IsNullDistinctOrNot(predicate)) =>
        IF predicate.op = "Not"
        THEN /\ evaluation.eval[FALSE] \in Known =>
                    evaluation.sql_where = evaluation.eval[FALSE]
             /\ evaluation.eval[FALSE] = None =>
                    evaluation.sql_where \in {"false", None}
             /\ (predicate.exprs[1] = col_x /\ is_null(resolver.x)) =>
                    evaluation.eval[FALSE] = None /\ evaluation.sql_where = "false"
        ELSE evaluation.sql_where = evaluation.eval[FALSE]

\* DISTINCT(1, x) with x null is some(true) for both
C16_Witness ==
    /\ evaluation.done /\ predicate = Binary("Distinct", VAL, col_x)
    /\ is_null(resolver.x)
    /\ evaluation.sql_where = "true" /\ evaluation.eval[FALSE] = "true"

\* a comparison of the column with a literal that is not null
ColumnComparison(expr) ==
    /\ expr.t = "Binary" /\ expr.op \in Comparisons
    /\ {expr.exprs[1], expr.exprs[2]} = {col_x, VAL}

\* expr is a comparison of the column, alone or under AND with true
\* operands, and such an AND under OR with false operands
RECURSIVE UnderAnd(_)
UnderAnd(expr) ==
    \/ ColumnComparison(expr)
    \/ /\ expr.t = "Junction" /\ expr.op = "And"
       /\ expr.exprs[1] = TRUE_LITERAL /\ UnderAnd(expr.exprs[2])

UnderAndOr(expr) ==
    \/ UnderAnd(expr)
    \/ /\ expr.t = "Junction" /\ expr.op = "Or"
       /\ expr.exprs[1] = FALSE_LITERAL
       /\ expr.exprs[2].t = "Junction" /\ UnderAnd(expr.exprs[2])

C18_NegationByInverted ==
    evaluation.done =>
        /\ \A inverted \in BOOLEAN :
            evaluation.eval_not[inverted] = evaluation.eval[~inverted]
        /\ evaluation.eval_not[FALSE] = negate(evaluation.eval[FALSE])
        /\ evaluation.eval[TRUE] = negate(evaluation.eval[FALSE])
        /\ (predicate.t = "Literal" /\ predicate.val.variant # "Boolean") =>
                \A inverted \in BOOLEAN : evaluation.eval[inverted] = None

\* the negation of a junction that holds a negation
C18_Witness ==
    /\ evaluation.done
    /\ predicate.t = "Junction" /\ predicate.exprs[2].t = "Unary"
    /\ predicate.exprs[2].op = "Not"
    /\ evaluation.eval[FALSE] = "true" /\ evaluation.eval_not[FALSE] = "false"

\* the operands of the junction, as the set of their values
OperandValues(exprs) ==
    {IF exprs[i] = TRUE_LITERAL THEN "true"
     ELSE IF exprs[i] = FALSE_LITERAL THEN "false" ELSE None :
        i \in 1..Len(exprs)}

\* SQL three-valued AND and OR of a set of values
JunctionOf(op, values) ==
    IF op = "And"
    THEN IF "false" \in values THEN "false"
         ELSE IF values \subseteq {"true"} THEN "true" ELSE None
    ELSE IF "true" \in values THEN "true"
         ELSE IF values \subseteq {"false"} THEN "false" ELSE None

\* C19: eval_junction is the SQL three-valued AND or OR of the values of its
\* operands, whatever their order: AND is false if an operand is false, true
\* if all are true (also of no operand), else unknown; OR is the dual; with
\* inverted = true a known result is negated and unknown stays unknown.
C19_JunctionThreeValued ==
    (/\ evaluation.done /\ predicate.t = "Junction"
     /\ \A i \in 1..Len(predicate.exprs) : predicate.exprs[i] \in JunctionInputs) =>
        LET expect == JunctionOf(predicate.op, OperandValues(predicate.exprs))
        IN /\ evaluation.eval[FALSE] = expect
           /\ evaluation.eval[TRUE] = negate(expect)

\* AND of true, unknown and false is false
C19_Witness ==
    /\ evaluation.done
    /\ predicate = Junction("And", <<TRUE_LITERAL, NULL, FALSE_LITERAL>>)
    /\ evaluation.eval[FALSE] = "false" /\ evaluation.eval[TRUE] = "true"

(***************************************************************************)
(* Properties of the comparison of scalars.                                *)
(***************************************************************************)
\* the scalar of an operand of the predicate
OperandScalar(expr) == IF expr.t = "Column" THEN resolver[expr.col] ELSE expr.val

\* C20: a null is incomparable: partial_cmp of a null with any scalar, in
\* either order, is none and a null is not equal to a null; a comparison
\* with a null operand is unknown under both values of inverted; the same
\* holds for two scalars of different types.
C20_NullIncomparable ==
    (evaluation.done /\ predicate.t = "Binary" /\ predicate.op \in Comparisons) =>
        LET a == OperandScalar(predicate.exprs[1])
            b == OperandScalar(predicate.exprs[2])
        IN (/\ a # Missing /\ b # Missing
            /\ is_null(a) \/ is_null(b) \/ a.ty # b.ty) =>
                /\ \A inverted \in BOOLEAN : evaluation.eval[inverted] = None
                /\ evaluation.partial_cmp = None
                /\ ~evaluation.eq

\* null = null of one type, as literals
C20_Witness ==
    /\ evaluation.done
    /\ predicate = Binary("Equal", Literal(Null("INTEGER")), Literal(Null("INTEGER")))
    /\ evaluation.eval[FALSE] = None /\ ~evaluation.eq

\* C21: DISTINCT of two resolvable scalars, whatever their types and whether
\* they are literals or columns, is never unknown: it is true when exactly
\* one of them is null or when both are values that do not compare equal,
\* false otherwise, and the inverted evaluation is its negation.
C21_DistinctTotal ==
    (evaluation.done /\ predicate.t = "Binary" /\ predicate.op = "Distinct") =>
        LET a == OperandScalar(predicate.exprs[1])
            b == OperandScalar(predicate.exprs[2])
            expected == \/ is_null(a) # is_null(b)
                        \/ ~is_null(a) /\ ~is_null(b) /\ partial_cmp(a, b) # "Equal"
        IN (a # Missing /\ b # Missing) =>
            /\ evaluation.eval[FALSE] = Some(expected)
            /\ evaluation.eval[TRUE] = Some(~expected)

\* a struct column is distinct from a literal of the same struct
C21_Witness ==
    /\ evaluation.done
    /\ predicate = Binary("Distinct", col_x, Literal(Scalar("Struct", "struct<>", 0)))
    /\ resolver.x = Scalar("Struct", "struct<>", 0)
    /\ evaluation.eval[FALSE] = Some(TRUE)

\* C22: a decimal that DecimalData::try_new accepted, negative bits with a
\* positive scale included, parses back from its Display rendering under
\* the same decimal type to the same bits.
C22_DecimalRoundTrip ==
    (decimal.stage = "parsed" /\ decimal.displayed) =>
        decimal.parsed = DecimalOk(decimal.made.bits)

\* the number of base-10 digits that the magnitude of bits needs, 0 for 0
DigitsNeeded(bits) == Len(bits.mag)

\* C23: DecimalData::try_new fails exactly when the bits need more base-10
\* digits than the declared precision (0 needs none, i128::MIN needs 39),
\* and so does parse_decimal of a decimal written in full with the scale of
\* its type; hence every decimal that was made or parsed has a precision of
\* at least the digits of its bits.
C23_PrecisionHoldsDigits ==
    /\ decimal.made.kind # None =>
        /\ decimal.made.kind = "Ok" <=> DigitsNeeded(decimal.bits) <= decimal.ty.precision
        /\ decimal.made.kind = "Ok" => decimal.made.bits = decimal.bits
    /\ (decimal.stage = "parsed" /\ ~decimal.displayed
            /\ decimal.raw = literal(decimal.bits, decimal.ty.scale)) =>
        decimal.parsed = IF DigitsNeeded(decimal.bits) <= decimal.ty.precision
                         THEN DecimalOk(decimal.bits)
                         ELSE DecimalErr("InvalidDecimal")
    /\ \A made \in {decimal.made, decimal.parsed} :
        made.kind = "Ok" => DigitsNeeded(made.bits) <= decimal.ty.precision

\* i128::MIN is refused under the largest precision, 38
C23_Witness ==
    /\ decimal.stage = "made"
    /\ decimal.bits = I128_MIN
    /\ decimal.ty.precision = 38
    /\ decimal.made = DecimalErr("InvalidDecimal")

\* the results of the model's operations that an integer of 32 bits holds
\* while it is computed: those of the bytes and shorts, and those of the
\* integers and longs within LongOperandBound
Computable(a, b) ==
    \/ a.variant \in {"Byte", "Short"}
    \/ \A v \in {a.v, b.v} : -LongOperandBound <= v /\ v <= LongOperandBound

\* the exact result of the operation on two integers, the quotient rounded
\* towards zero
Exact(op, a, b) ==
    CASE op = "try_add" -> a + b
      [] op = "try_sub" -> a - b
      [] op = "try_mul" -> a * b
      [] op = "try_div" ->
            LET q == (IF a < 0 THEN -a ELSE a) \div (IF b < 0 THEN -b ELSE b)
            IN IF (a < 0) # (b < 0) THEN -q ELSE q

\* C24: try_add, try_sub, try_mul and try_div return a value only for two
\* operands of the same integral variant whose exact result fits the width
\* of the variant, and then that result in that variant; they return none
\* on overflow (MIN / -1 and MIN * -1 included), on a division by zero and
\* for every other pair of variants; no result is wrapped around.
C24_CheckedArithmetic ==
    arithmetic.op # None =>
        LET a == arithmetic.left
            b == arithmetic.right
            r == arithmetic.result
            op == arithmetic.op
        IN IF a.variant = b.variant /\ a.variant \in IntegralVariants
           THEN /\ r # NoScalar =>
                    /\ r.variant = a.variant /\ r.ty = a.ty
                    /\ MinOf(a.variant) <= r.v /\ r.v <= MaxOf(a.variant)
                    /\ op = "try_add" => r.v - b.v = a.v
                    /\ op = "try_sub" => r.v + b.v = a.v
                    /\ op = "try_mul" /\ b.v > 0 => r.v \div b.v = a.v /\ r.v % b.v = 0
                    /\ op = "try_mul" /\ b.v < 0 /\ a.v > 0 =>
                        r.v \div a.v = b.v /\ r.v % a.v = 0
                    /\ op = "try_mul" /\ b.v < 0 /\ a.v < 0 => Computable(a, b)
                /\ (op = "try_div" /\ b.v = 0) => r = NoScalar
                /\ (op \in {"try_div", "try_mul"} /\ a.v = MinOf(a.variant) /\ b.v = -1
                        /\ a.variant # "Long") => r = NoScalar
                /\ (op = "try_add" /\ a.v = MaxOf(a.variant) /\ b.v > 0) => r = NoScalar
                /\ (op = "try_sub" /\ a.v = MinOf(a.variant) /\ b.v > 0) => r = NoScalar
                /\ (Computable(a, b) /\ ~(op = "try_div" /\ b.v = 0)) =>
                    r = IF /\ MinOf(a.variant) <= Exact(op, a.v, b.v)
                           /\ Exact(op, a.v, b.v) <= MaxOf(a.variant)
                        THEN Scalar(a.variant, a.ty, Exact(op, a.v, b.v))
                        ELSE NoScalar
           ELSE r = NoScalar

\* the division of the least byte by -1 returns none
C24_Witness ==
    /\ arithmetic.op = "try_div"
    /\ arithmetic.left = Byte(-128)
    /\ arithmetic.right = Byte(-1)
    /\ arithmetic.result = NoScalar

\* read_scan_file has emitted one more batch in this step
BatchEmitted ==
    /\ Len(results') = Len(results) + 1
    /\ results'[Len(results')].item = "Ok"

\* C25: when a batch of len rows is emitted and the remaining selection
\* vector has fewer than len entries, the mask of the batch is that vector
\* extended to len entries, with false for a resolved pair of deletion
\* vectors and with true for an unpaired file; a file without a deletion
\* vector has no mask on any batch and no remaining vector.
C25_ShortVectorExtended ==
    [][BatchEmitted =>
        LET emitted == results'[Len(results')]
        IN /\ (selection_vector.some /\ Len(selection_vector.v) < emitted.len) =>
                /\ emitted.raw_mask =
                    SomeVec(PaddedTo(selection_vector.v, emitted.len,
                                     ~scan_file.remove_dv))
                /\ Len(emitted.raw_mask.v) = emitted.len
           /\ ~scan_file.sv.some =>
                /\ emitted.raw_mask = NoneVec
                /\ selection_vector = NoneVec /\ selection_vector' = NoneVec]_vars

\* a pair's vector of one entry was extended with false to a batch of two
\* rows
C25_Witness ==
    /\ scan_file = [remove_dv |-> TRUE, sv |-> SomeVec(<<TRUE>>)]
    /\ Len(results) = 1
    /\ results[1].len = 2
    /\ results[1].raw_mask = SomeVec(<<TRUE, FALSE>>)

RECURSIVE PhysicalRows(_)
\* the rows of the physical batches behind a sequence of results
PhysicalRows(rs) ==
    IF rs = <<>> THEN 0 ELSE Head(rs).rows + PhysicalRows(Tail(rs))

\* C28: the mask emitted with the k-th batch of a file covers the rows of
\* the file that start at the sum of the row counts of the earlier physical
\* batches, a batch whose transform failed included: each entry of the mask
\* that lies within the file's selection vector is the vector's entry for
\* that row.
C28_MaskAligned ==
    \A k \in 1..Len(results) :
        (results[k].item = "Ok" /\ results[k].raw_mask.some) =>
            LET start == PhysicalRows(SubSeq(results, 1, k - 1))
            IN \A j \in 1..Len(results[k].raw_mask.v) :
                start + j <= Len(scan_file.sv.v) =>
                    results[k].raw_mask.v[j] = scan_file.sv.v[start + j]

(***************************************************************************)
(* Properties of TableChangesScanBuilder::build.                           *)
(***************************************************************************)
\* the positions of the logical schema whose field is neither a partition
\* column nor a CDF column
ReadPositions ==
    {i \in 1..Len(builder.scan.logical_schema) :
        /\ builder.scan.logical_schema[i].name \notin builder.partition_columns
        /\ builder.scan.logical_schema[i].name \notin CdfColumns}

\* the k-th of the read positions, in the order of the logical schema
ReadPosition(k) ==
    CHOOSE i \in ReadPositions : Cardinality({j \in ReadPositions : j <= i}) = k

\* C26: a scan that was built has one ColumnType per field of the logical
\* schema, in order: Partition(index in the logical schema) for a partition
\* column, Selected(name) for a CDF column, Selected(physical name) for any
\* other field; the physical schema holds the fields of the third kind
\* under their physical names, in the order of the logical schema, and no
\* partition or CDF column.
C26_ColumnTypes ==
    builder.scan.kind = "Ok" =>
        LET logical_schema == builder.scan.logical_schema
            all_fields == builder.scan.all_fields
            physical_schema == builder.scan.physical_schema
        IN /\ logical_schema = IF builder.schema.some THEN builder.schema.fields
                               ELSE table_changes_schema(builder.mapped)
           /\ Len(all_fields) = Len(logical_schema)
           /\ \A i \in 1..Len(logical_schema) :
                all_fields[i] =
                    IF logical_schema[i].name \in builder.partition_columns
                    THEN Partition(i - 1)
                    ELSE IF logical_schema[i].name \in CdfColumns
                    THEN Selected(logical_schema[i].name)
                    ELSE Selected(logical_schema[i].physical_name)
           /\ Len(physical_schema) = Cardinality(ReadPositions)
           /\ \A k \in 1..Len(physical_schema) :
                physical_schema[k].name = logical_schema[ReadPosition(k)].physical_name

\* a projection under column mapping with a read column, a partition
\* column and a CDF column
C26_Witness ==
    /\ builder.scan.kind = "Ok"
    /\ builder.scan.all_fields =
        <<Selected("col-id"), Partition(1), Selected("_commit_version")>>
    /\ Len(builder.scan.physical_schema) = 1

(***************************************************************************)
(* Further properties of visit_scan_files.                                 *)
(***************************************************************************)
\* the stats strings that do not parse as Stats
Unparsable == {"invalid", "no numRecords"}

\* the visit is at a selected add file row with a size whose stats string
\* does not parse
AtUnparsableStats ==
    /\ visitor.status = "visiting"
    /\ visitor.row_index < Len(scan_metadata.data)
    /\ visitor.row_index < Len(scan_metadata.selection_vector)
    /\ scan_metadata.selection_vector[visitor.row_index + 1]
    /\ scan_metadata.data[visitor.row_index + 1].path # 0
    /\ scan_metadata.data[visitor.row_index + 1].size # 0
    /\ scan_metadata.data[visitor.row_index + 1].stats \in Unparsable

\* C27: a selected add file row whose stats string is not valid JSON, or
\* lacks numRecords, is not an error: the callback is invoked for the row
\* with no stats and with the row's path, size, deletion vector, transform
\* and partition values, and the visit goes on with the next row.
C27_InvalidStatsDropped ==
    [][AtUnparsableStats =>
        LET row_index == visitor.row_index
            row == scan_metadata.data[row_index + 1]
        IN /\ visitor'.status = "visiting"
           /\ visitor'.row_index = row_index + 1
           /\ visited' = Append(visited,
                [row_index |-> row_index, path |-> row.path, size |-> row.size,
                 stats |-> None, dv_info |-> row.deletion_vector,
                 transform |-> scan_metadata.transforms[row_index + 1],
                 partition_values |-> row.partition_values,
                 context |-> visitor.context])]_vars

\* a visit returned Ok after a row with invalid stats and a later row
C27_Witness ==
    /\ visitor.status = "Ok"
    /\ Len(visited) = 2
    /\ scan_metadata.data[visited[1].row_index + 1].stats = "invalid"
    /\ visited[1].stats = None
    /\ visited[2].stats = "Some"

\* the fields of a transaction that a commit receives
SameTransaction(a, b) ==
    /\ a.read_version = b.read_version
    /\ a.operation = b.operation
    /\ a.commit_info = b.commit_info
    /\ a.add_files_metadata = b.add_files_metadata
    /\ a.set_transactions = b.set_transactions
    /\ a.commit_timestamp = b.commit_timestamp

\* a commit takes the transaction as it is, and a Conflict hands it back as
\* it was, open again
ConflictKeepsTransaction ==
    \A t \in Txns :
        /\ (txn[t].status = "open" /\ txn'[t].status = "writing") =>
                SameTransaction(txn'[t], txn[t])
        /\ (Returns(t) /\ result'[t].kind = "Conflict") =>
                /\ txn'[t].status = "open"
                /\ SameTransaction(txn'[t], txn[t])
                /\ call'[t].transaction = txn'[t]

\* a commit of the transaction a Conflict handed back, made without a change
\* to it, reaches the writer, finds the file of the version there and is
\* never Committed; when the writer answers it is Conflict at the version of
\* the Conflict before
RetryConflictsAgain ==
    \A t \in Txns :
        /\ (/\ txn[t].status = "open"
            /\ result[t].kind = "Conflict"
            /\ call[t].transaction = txn[t]) =>
                /\ txn'[t].status \in {"open", "writing"}
                /\ (txn'[t].status = "writing") =>
                        /\ call'[t].unchanged
                        /\ call'[t].conflicted = result[t].version
        /\ (Returns(t) /\ call[t].unchanged) =>
                /\ log[call[t].conflicted] # NoFile
                /\ result'[t].kind # "Committed"
                /\ call'[t].outcome \in {"FileAlreadyExists", "IOError"}
                /\ (call'[t].outcome = "FileAlreadyExists") =>
                        result'[t] = Conflict(call[t].conflicted)

\* C29: a commit that ends in Conflict leaves the transaction unchanged: the
\* transaction returned in Conflict has the same read snapshot, operation,
\* commit info, add-file batches, set_transactions and commit timestamp as
\* before the call; committing it again without changes, while the file of
\* that version exists, returns Conflict with the same version again
\* whenever the writer answers, and never Committed at another version.
C29_ConflictLeavesTransaction ==
    [][ConflictKeepsTransaction /\ RetryConflictsAgain]_vars

\* a transaction with staged data, handed back by a Conflict and committed
\* again as it was, has met Conflict at the same version a second time
C29_Witness ==
    \E t \in Txns :
        /\ call[t].made /\ call[t].retry /\ call[t].outcome = "FileAlreadyExists"
        /\ result[t] = Conflict(call[t].conflicted)
        /\ call[t].transaction = txn[t]
        /\ txn[t].add_files_metadata # <<>>
        /\ txn[t].set_transactions # <<>>

\* C30: visit_scan_files never reads the selection vector at an index at or
\* beyond its length: whatever the lengths of the selection vector and of
\* the data, the visit does not end with an out-of-range access.
C30_NoOutOfRangeAccess == visitor.status # "panic"

=============================================================================
